---- MODULE Spec2Model ----
(***************************************************************************)
(* A model of the cancelable library: the cancellation token               *)
(* (core/token.py), the scope object (core/cancellable.py) and the         *)
(* cancellation sources (sources/*.py).                                    *)
(*                                                                         *)
(* SpecToken models tokens at the granularity of the event loop: every     *)
(* await of token.py (the lock acquisition, each awaited listener) is a    *)
(* point where another task may run.  Tasks carry a call stack, because a  *)
(* linked token's listener calls cancel() on another token from inside     *)
(* the dispatch loop of the first.                                         *)
(*                                                                         *)
(* SpecScope and SpecTree model scopes, one step per handler: SpecScope    *)
(* the programs with one scope or a scope built by combine(), SpecTree     *)
(* the programs with a parent, a child and a grandchild.                   *)
(***************************************************************************)
EXTENDS Integers, Sequences, FiniteSets, TLC

(***************************************************************************)
(* Bounds of the model.                                                    *)
(***************************************************************************)
MaxOps == 2

(***************************************************************************)
(* CancellationReason and message values.                                  *)
(***************************************************************************)
Reasons == {"TIMEOUT", "MANUAL", "SIGNAL", "CONDITION", "PARENT"}

NoReason == "NONE"

\* message = None
NoMsg == [k |-> "none", v |-> 0]

\* a message supplied by the caller; UserMsg(0) is the empty string
UserMsg(n) == [k |-> "user", v |-> n]

\* f"Linked token {linked_token.id[:8]} was cancelled"
LinkedMsg(b) == [k |-> "linked", v |-> b]

\* Python truthiness of an optional string: None and "" are falsy
Truthy(m) == m # NoMsg /\ m # UserMsg(0)

Tokens == {1, 2}

Tasks == {"t1", "t2"}

\* the (reason, message) pairs the tasks of SpecToken pass to cancel():
\* no message, a message, and the empty message
CallArgs == {<<"MANUAL", NoMsg>>, <<"MANUAL", UserMsg(1)>>, <<"TIMEOUT", UserMsg(0)>>}

VARIABLES
    tok,      \* token -> [is_cancelled, reason, message, cancelled_at]
    cbs,      \* token -> _callbacks, in registration order
    lock,     \* token -> the task that holds _lock, or "free"
    stack,    \* task -> its call stack of cancel/register_callback frames
    clock,    \* datetime.now(): advances with every call
    nops,     \* operations started so far
    win,      \* history: token -> the call that made the transition
    rets,     \* history: token -> how its cancel() calls ended
    regs,     \* history: registration id -> what became of the listener
    sc,       \* the scopes and sources the program constructed (fixed)
    pc,       \* scope -> "new", "body" (inside async with) or "done"
    ctx,      \* scope -> context: status, cancel_reason, cancel_message, error
    cs,       \* scope -> its anyio.CancelScope (_scope)
    src,      \* source -> scope, _cancel_callback, triggered, monitor state
    now,      \* anyio.current_time()
    ncalls,   \* cancel() calls made by the program so far
    log,      \* history: scope -> the statuses its context has held
    ex,       \* history: scope -> what __aexit__ saw and what it recorded
    sh,       \* scope -> its shield(): _shields, the sub-scope, and history
    registry, \* OperationRegistry: _operations and _history
    current,  \* _current_operation of the task, and each scope's _context_token
    enclosing,\* whether the cancel region around the program's scopes is cancelled
    fin,      \* history: scope -> what the finally block of __aexit__ left behind
    ret,      \* history: the last cancel_all() or cleanup_completed() call
    bridge,   \* AnyioBridge: _started, _pending_callbacks, the stream, its callers
    sig,      \* SignalSource: the class-level handler tables, and the sources
    cond,     \* ConditionSource: the polling loop of one source
    comp,     \* CompositeSource / AllOfSource: the children and the monitors
    strm,     \* Cancellable.stream: the wrapped iteration and partial_result
    chk,      \* chunked_cancellable_stream: the chunks and the progress events
    val,      \* the constructors called with a timeout or a check interval
    rl,       \* OperationRegistry._lock: its holder, and the calls of the tasks
    wr        \* the invocations of a function returned by Cancellable.wrap

tokenVars == <<tok, cbs, lock, stack, clock, nops, win, rets, regs>>

scopeVars == <<sc, pc, ctx, cs, src, now, ncalls, log, ex, sh,
               registry, current, enclosing, fin, ret, bridge,
               sig, cond, comp, strm, chk, val, rl, wr>>

\* what the steps other than enter and exit leave alone
registryVars == <<registry, current, enclosing, fin, ret>>

\* the variables of the token machine, and the bridge, that the steps of a
\* scope leave alone
tokenRest == <<lock, stack, clock, nops, win, rets, regs, bridge,
               sig, cond, comp, strm, chk, val, rl, wr>>

\* the variables of the token machine and of the scopes
coreVars == <<tok, cbs, lock, stack, clock, nops, win, rets, regs,
              sc, pc, ctx, cs, src, now, ncalls, log, ex, sh,
              registry, current, enclosing, fin, ret>>

\* what the steps of the bridge leave alone
bridgeRest == <<tok, cbs, lock, stack, clock, nops, win, rets, regs,
                sc, pc, ctx, cs, src, now, ncalls, log, ex, sh,
                registry, current, enclosing, fin, ret,
                sig, cond, comp, strm, chk, val, rl, wr>>

vars == <<tok, cbs, lock, stack, clock, nops, win, rets, regs,
          sc, pc, ctx, cs, src, now, ncalls, log, ex, sh,
          registry, current, enclosing, fin, ret, bridge,
          sig, cond, comp, strm, chk, val, rl, wr>>

\* the sources and utilities that a specification does not use
NoSig == sig = <<>>
NoCond == cond = <<>>
NoComp == comp = <<>>
NoStrm == strm = <<>>
NoChk == chk = <<>>
NoVal == val = <<>>

NoRl == rl = <<>>
NoWr == wr = <<>>

NoUtils == NoSig /\ NoCond /\ NoComp /\ NoStrm /\ NoChk /\ NoVal /\ NoRl /\ NoWr

\* the token machine and the scopes, for a specification that uses neither
NoCore ==
    /\ tok = <<>> /\ cbs = <<>> /\ lock = <<>> /\ stack = <<>>
    /\ clock = 0 /\ nops = 0 /\ win = <<>> /\ rets = <<>> /\ regs = <<>>
    /\ sc = <<>> /\ pc = <<>> /\ ctx = <<>> /\ cs = <<>> /\ src = <<>>
    /\ now = 0 /\ ncalls = 0 /\ log = <<>> /\ ex = <<>> /\ sh = <<>>
    /\ registry = <<>> /\ current = <<>> /\ enclosing = FALSE /\ fin = <<>>
    /\ ret = <<>>

NewToken == [is_cancelled |-> FALSE, reason |-> NoReason, message |-> NoMsg,
             cancelled_at |-> 0]

NoWin == [call |-> 0, reason |-> NoReason, message |-> NoMsg, at |-> 0,
          origin |-> "none", from |-> 0, preserve |-> FALSE, returned |-> FALSE]

NoRets == [true |-> 0, false |-> 0, raisedTask |-> 0, raisedNested |-> 0]

\* history of one registration: the token t it was made on, whether it was
\* made before ("early") or after ("late") the token was cancelled, how often
\* and by which call the listener ran (by = -1: by register_callback itself),
\* whether it ever ran while the token was not cancelled; for a link
\* listener, the linking token a and preserve_reason p
NoReg == [t |-> 0, state |-> "none", inv |-> 0, by |-> 0, premature |-> FALSE,
          a |-> 0, p |-> FALSE]

Reg(t, cb, state) == [t |-> t, state |-> state, inv |-> 0, by |-> 0,
                      premature |-> FALSE, a |-> cb.target, p |-> cb.preserve]

UserCb(id, raises) ==
    [kind |-> "user", id |-> id, raises |-> raises, target |-> 0, preserve |-> FALSE]

LinkCb(id, a, p) ==
    [kind |-> "link", id |-> id, raises |-> FALSE, target |-> a, preserve |-> p]

\* Listeners and links registered before the tasks start: none; a listener
\* on token 1; 1.link(2, True); a listener on token 2 followed by
\* 1.link(2); the two tokens linked in both directions.
PreId == MaxOps + 1

PreCbs == {
    [t \in Tokens |-> <<>>],
    [t \in Tokens |-> IF t = 1 THEN <<UserCb(PreId, TRUE)>> ELSE <<>>],
    [t \in Tokens |-> IF t = 2 THEN <<LinkCb(PreId, 1, TRUE)>> ELSE <<>>],
    [t \in Tokens |-> IF t = 2 THEN <<UserCb(PreId, FALSE), LinkCb(PreId + 1, 1, FALSE)>>
                                ELSE <<>>],
    [t \in Tokens |-> <<LinkCb(PreId + t - 1, 3 - t, TRUE)>>] }

PreRegs(c) ==
    [id \in 1..(MaxOps + 2) |->
        IF \E t \in Tokens : \E i \in 1..Len(c[t]) : c[t][i].id = id
        THEN LET t == CHOOSE t \in Tokens : \E i \in 1..Len(c[t]) : c[t][i].id = id
                 i == CHOOSE i \in 1..Len(c[t]) : c[t][i].id = id
             IN Reg(t, c[t][i], "early")
        ELSE NoReg]

InitToken ==
    /\ tok = [t \in Tokens |-> NewToken]
    /\ cbs \in PreCbs
    /\ lock = [t \in Tokens |-> "free"]
    /\ stack = [k \in Tasks |-> <<>>]
    /\ clock = 0
    /\ nops = 0
    /\ win = [t \in Tokens |-> NoWin]
    /\ rets = [t \in Tokens |-> NoRets]
    /\ regs = PreRegs(cbs)
    /\ sc = <<>> /\ pc = <<>> /\ ctx = <<>> /\ cs = <<>> /\ src = <<>>
    /\ now = 0 /\ ncalls = 0 /\ log = <<>> /\ ex = <<>> /\ sh = <<>>
    /\ registry = <<>> /\ current = <<>> /\ enclosing = FALSE /\ fin = <<>>
    /\ ret = <<>> /\ bridge = <<>> /\ NoUtils

(***************************************************************************)
(* Call frames.                                                            *)
(***************************************************************************)
CancelFrame(t, r, m, call, origin, from, p) ==
    [op |-> "cancel", t |-> t, reason |-> r, msg |-> m, pc |-> "acquire",
     snap |-> <<>>, i |-> 1, cb |-> UserCb(0, FALSE), call |-> call,
     origin |-> origin, from |-> from, preserve |-> p]

RegisterFrame(t, cb, call) ==
    [op |-> "register", t |-> t, reason |-> NoReason, msg |-> NoMsg, pc |-> "acquire",
     snap |-> <<>>, i |-> 1, cb |-> cb, call |-> call,
     origin |-> "task", from |-> 0, preserve |-> FALSE]

Range(q) == {q[i] : i \in 1..Len(q)}

Top(k) == stack[k][Len(stack[k])]

Busy(k) == stack[k] # <<>>

\* The tasks are interchangeable while both are idle: the first of them then
\* starts the next call.
MayStart(k) == k = "t1" \/ stack["t1"] # <<>>

\* the caller's frame once the callee has returned or raised: the dispatch
\* loop moves to the next listener (token.py 96-108), register_callback
\* leaves its try block (token.py 167-175)
Resume(f) ==
    IF f.op = "cancel" THEN [f EXCEPT !.i = @ + 1] ELSE [f EXCEPT !.pc = "release"]

\* the stack of task k after its top frame has returned or raised
Popped(k) ==
    LET s == stack[k]
        n == Len(s)
    IN IF n = 1 THEN <<>>
       ELSE Append(SubSeq(s, 1, n - 2), Resume(s[n - 1]))

\* the stack of task k with its top frame replaced
Replaced(k, f) == [stack EXCEPT ![k] = Append(SubSeq(@, 1, Len(@) - 1), f)]

\* the stack of task k with its top frame replaced by f and g pushed on it
Pushed(k, f, g) ==
    [stack EXCEPT ![k] = Append(Append(SubSeq(@, 1, Len(@) - 1), f), g)]

(***************************************************************************)
(* LinkedCancellationToken.link: the reason and message its listener       *)
(* on_linked_cancel passes to self.cancel().                               *)
(***************************************************************************)
LinkedReasonAlwaysParent(preserve, linked) == "PARENT"

LinkedReason(preserve, linked) ==
    IF preserve /\ linked.reason # NoReason THEN linked.reason ELSE "PARENT"

LinkedMessage(preserve, linked, b) ==
    IF preserve /\ linked.reason # NoReason
    THEN IF Truthy(linked.message) THEN linked.message ELSE LinkedMsg(b)
    ELSE LinkedMsg(b)

(***************************************************************************)
(* CancellationToken.cancel                                                *)
(***************************************************************************)
AlreadyCancelledNever(t) == FALSE

\* token.py 79: if self.is_cancelled: return False
AlreadyCancelled(t) == tok[t].is_cancelled

\* token.py 96: list(self._callbacks)
Snapshot(t) == cbs[t]

CallImmediatelyNever(t) == FALSE

\* token.py 165: if self.is_cancelled: await callback(self)
CallImmediately(t) == tok[t].is_cancelled

\* history: the first call to make the transition of a token
FirstWin(w, f, returned) ==
    IF w.call # 0 THEN w
    ELSE [call |-> f.call, reason |-> f.reason, message |-> f.msg, at |-> clock,
          origin |-> f.origin, from |-> f.from, preserve |-> f.preserve,
          returned |-> returned]

\* a task calls token.cancel(reason, message)
CallCancel(k, t, r, m) ==
    /\ ~Busy(k)
    /\ MayStart(k)
    /\ nops < MaxOps
    /\ nops' = nops + 1
    /\ clock' = clock + 1
    /\ stack' = [stack EXCEPT ![k] = <<CancelFrame(t, r, m, nops + 1, "task", 0, FALSE)>>]
    /\ UNCHANGED <<tok, cbs, lock, win, rets, regs>>

\* async with self._lock, the is_cancelled test and the transition
CancelAcquire(k) ==
    /\ Busy(k)
    /\ LET f == Top(k)
           t == f.t
       IN /\ f.op = "cancel"
          /\ f.pc = "acquire"
          /\ \/ \* the task already holds the lock: anyio.Lock is not re-entrant
                /\ lock[t] = k
                /\ stack' = [stack EXCEPT ![k] = Popped(k)]
                /\ rets' = [rets EXCEPT ![t] =
                       IF f.origin = "task" THEN [@ EXCEPT !.raisedTask = @ + 1]
                                            ELSE [@ EXCEPT !.raisedNested = @ + 1]]
                /\ UNCHANGED <<tok, cbs, lock, win>>
             \/ /\ lock[t] = "free"
                /\ AlreadyCancelled(t)
                /\ stack' = [stack EXCEPT ![k] = Popped(k)]
                /\ rets' = [rets EXCEPT ![t].false = @ + 1]
                /\ UNCHANGED <<tok, cbs, lock, win>>
             \/ \* the transition, with listeners to notify
                /\ lock[t] = "free"
                /\ ~AlreadyCancelled(t)
                /\ Snapshot(t) # <<>>
                /\ lock' = [lock EXCEPT ![t] = k]
                /\ tok' = [tok EXCEPT ![t] =
                       [is_cancelled |-> TRUE, reason |-> f.reason,
                        message |-> f.msg, cancelled_at |-> clock]]
                /\ win' = [win EXCEPT ![t] = FirstWin(@, f, FALSE)]
                /\ stack' = Replaced(k, [f EXCEPT !.pc = "dispatch",
                                                  !.snap = Snapshot(t), !.i = 1])
                /\ UNCHANGED <<cbs, rets>>
             \/ \* the transition, with no listener: nothing is awaited before
                \* the lock is released and True returned
                /\ lock[t] = "free"
                /\ ~AlreadyCancelled(t)
                /\ Snapshot(t) = <<>>
                /\ tok' = [tok EXCEPT ![t] =
                       [is_cancelled |-> TRUE, reason |-> f.reason,
                        message |-> f.msg, cancelled_at |-> clock]]
                /\ win' = [win EXCEPT ![t] = FirstWin(@, f, TRUE)]
                /\ rets' = [rets EXCEPT ![t].true = @ + 1]
                /\ stack' = [stack EXCEPT ![k] = Popped(k)]
                /\ UNCHANGED <<cbs, lock>>
    /\ UNCHANGED <<clock, nops, regs>>

\* a listener that raises ends the loop
Uncaught(f, cb) ==
    IF cb.raises THEN [f EXCEPT !.i = Len(f.snap) + 1] ELSE [f EXCEPT !.i = @ + 1]

\* token.py 97-108: the listener has returned, or has raised an Exception
\* that is logged: the loop goes on with the next listener
Caught(f, cb) == [f EXCEPT !.i = @ + 1]

\* one turn of the loop "for i, callback in enumerate(list(self._callbacks))"
CancelDispatch(k) ==
    /\ Busy(k)
    /\ LET f == Top(k)
           t == f.t
       IN /\ f.op = "cancel"
          /\ f.pc = "dispatch"
          /\ f.i <= Len(f.snap)
          /\ LET cb == f.snap[f.i]
             IN \/ /\ cb.kind = "user"
                   /\ regs' = [regs EXCEPT ![cb.id].inv = @ + 1,
                                           ![cb.id].by = f.call,
                                           ![cb.id].premature = @ \/ ~tok[t].is_cancelled]
                   /\ stack' = Replaced(k, Caught(f, cb))
                \/ /\ cb.kind = "link"
                   /\ stack' = Pushed(k, f,
                          CancelFrame(cb.target, LinkedReason(cb.preserve, tok[t]),
                                      LinkedMessage(cb.preserve, tok[t], t),
                                      f.call, "link", t, cb.preserve))
                   /\ UNCHANGED regs
    /\ UNCHANGED <<tok, cbs, lock, clock, nops, win, rets>>

\* the loop is over: the lock is released and cancel() returns True
CancelReturn(k) ==
    /\ Busy(k)
    /\ LET f == Top(k)
           t == f.t
       IN /\ f.op = "cancel"
          /\ f.pc = "dispatch"
          /\ f.i > Len(f.snap)
          /\ lock' = [lock EXCEPT ![t] = "free"]
          /\ rets' = [rets EXCEPT ![t].true = @ + 1]
          /\ win' = [win EXCEPT ![t].returned = (@ \/ win[t].call = f.call)]
          /\ stack' = [stack EXCEPT ![k] = Popped(k)]
    /\ UNCHANGED <<tok, cbs, clock, nops, regs>>

(***************************************************************************)
(* CancellationToken.register_callback and LinkedCancellationToken.link    *)
(***************************************************************************)
\* a task calls token.register_callback(listener)
CallRegister(k, t, raises) ==
    /\ ~Busy(k)
    /\ MayStart(k)
    /\ nops < MaxOps
    /\ nops' = nops + 1
    /\ stack' = [stack EXCEPT ![k] =
           <<RegisterFrame(t, UserCb(nops + 1, raises), nops + 1)>>]
    /\ UNCHANGED <<tok, cbs, lock, clock, win, rets, regs>>

\* a task calls a.link(b, preserve_reason): on_linked_cancel is registered on b
link(k, a, b, preserve) ==
    /\ ~Busy(k)
    /\ MayStart(k)
    /\ nops < MaxOps
    /\ nops' = nops + 1
    /\ stack' = [stack EXCEPT ![k] =
           <<RegisterFrame(b, LinkCb(nops + 1, a, preserve), nops + 1)>>]
    /\ UNCHANGED <<tok, cbs, lock, clock, win, rets, regs>>

\* async with self._lock; self._callbacks.append(callback); the immediate call
RegisterAcquire(k) ==
    /\ Busy(k)
    /\ LET f == Top(k)
           t == f.t
           cb == f.cb
           late == CallImmediately(t)
           reg == Reg(t, cb, IF late THEN "calling" ELSE "early")
       IN /\ f.op = "register"
          /\ f.pc = "acquire"
          /\ lock[t] = "free"
          /\ cbs' = [cbs EXCEPT ![t] = Append(@, cb)]
          /\ IF ~late
             THEN /\ stack' = [stack EXCEPT ![k] = Popped(k)]
                  /\ regs' = [regs EXCEPT ![cb.id] = reg]
                  /\ UNCHANGED lock
             ELSE /\ lock' = [lock EXCEPT ![t] = k]
                  /\ IF cb.kind = "user"
                     THEN /\ regs' = [regs EXCEPT ![cb.id] =
                                 [reg EXCEPT !.inv = 1, !.by = -1,
                                             !.premature = ~tok[t].is_cancelled]]
                          /\ stack' = Replaced(k, [f EXCEPT !.pc = "release"])
                     ELSE /\ regs' = [regs EXCEPT ![cb.id] = reg]
                          /\ stack' = Pushed(k, [f EXCEPT !.pc = "called"],
                                 CancelFrame(cb.target, LinkedReason(cb.preserve, tok[t]),
                                             LinkedMessage(cb.preserve, tok[t], t),
                                             f.call, "link", t, cb.preserve))
    /\ UNCHANGED <<tok, clock, nops, win, rets>>

\* the immediate call is over: the lock is released and the call returns
RegisterRelease(k) ==
    /\ Busy(k)
    /\ LET f == Top(k)
       IN /\ f.op = "register"
          /\ f.pc = "release"
          /\ lock' = [lock EXCEPT ![f.t] = "free"]
          /\ regs' = [regs EXCEPT ![f.cb.id].state = "late"]
          /\ stack' = [stack EXCEPT ![k] = Popped(k)]
    /\ UNCHANGED <<tok, cbs, clock, nops, win, rets>>

NextToken ==
    \/ \E k \in Tasks, t \in Tokens, a \in CallArgs :
          CallCancel(k, t, a[1], a[2]) /\ UNCHANGED scopeVars
    \/ \E k \in Tasks, t \in Tokens, b \in BOOLEAN :
          CallRegister(k, t, b) /\ UNCHANGED scopeVars
    \/ \E k \in Tasks, a \in Tokens, p \in BOOLEAN : \E b \in Tokens \ {a} :
          link(k, a, b, p) /\ UNCHANGED scopeVars
    \/ \E k \in Tasks : CancelAcquire(k) /\ UNCHANGED scopeVars
    \/ \E k \in Tasks : CancelDispatch(k) /\ UNCHANGED scopeVars
    \/ \E k \in Tasks : CancelReturn(k) /\ UNCHANGED scopeVars
    \/ \E k \in Tasks : RegisterAcquire(k) /\ UNCHANGED scopeVars
    \/ \E k \in Tasks : RegisterRelease(k) /\ UNCHANGED scopeVars

SpecToken == InitToken /\ [][NextToken]_vars

(***************************************************************************)
(* Claims about the token, checked under SpecToken.                        *)
(***************************************************************************)

\* C1: of the cancel() calls that tasks make on one token, in any
\* interleaving, exactly one returns True and every other returns False
\* (none raises); the token's reason, message and cancelled_at are those of
\* the call that returned True, they never change (they always equal the
\* values recorded at the transition) and is_cancelled never goes back to
\* False.
C1_CancelExactlyOnce ==
    \A t \in Tokens :
        /\ rets[t].true <= 1
        /\ rets[t].true = (IF win[t].returned THEN 1 ELSE 0)
        /\ rets[t].raisedTask = 0
        /\ rets[t].false > 0 => tok[t].is_cancelled
        /\ tok[t].is_cancelled <=> win[t].call # 0
        /\ tok[t].is_cancelled =>
              /\ tok[t].reason = win[t].reason
              /\ tok[t].message = win[t].message
              /\ tok[t].cancelled_at = win[t].at

\* C1 witness: two calls on one token have returned, one True and one
\* False, the second made at a later time than the transition.
C1_Witness ==
    \E t \in Tokens :
        /\ rets[t].true = 1
        /\ rets[t].false >= 1
        /\ tok[t].cancelled_at < clock
        /\ \A k \in Tasks : stack[k] = <<>>

\* C2: every registration of a listener leads to exactly one invocation:
\* a listener registered before the first cancel() is invoked by that
\* cancel() (it has run once when that call returns) and by no other call;
\* a listener registered on a cancelled token has been invoked once, by
\* register_callback itself, when the registration returns; no listener is
\* invoked while its token is not cancelled.
C2_ListenerOnce ==
    \A id \in DOMAIN regs :
        LET r == regs[id]
        IN (r.state # "none" /\ r.a = 0) =>
              /\ r.inv <= 1
              /\ ~r.premature
              /\ r.inv = 1 => tok[r.t].is_cancelled
              /\ (r.state = "early" /\ r.inv = 1) => r.by = win[r.t].call
              /\ (r.state = "early" /\ win[r.t].returned) => r.inv = 1
              /\ r.state = "late" => (r.inv = 1 /\ r.by = -1)

\* C2 witness: on one cancelled token, a listener registered before the
\* cancel and one registered after it have both been invoked.
C2_Witness ==
    \E i, j \in DOMAIN regs :
        /\ regs[i].a = 0 /\ regs[j].a = 0
        /\ regs[i].t = regs[j].t
        /\ regs[i].state = "early" /\ regs[i].inv = 1
        /\ regs[j].state = "late" /\ regs[j].inv = 1

\* the links a.link(b, p) that were registered while b was not cancelled /
\* on a cancelled b, and whose link() call has returned
LinkRegs(state) == {id \in DOMAIN regs : regs[id].a # 0 /\ regs[id].state = state}

\* A is cancelled once B.cancel() has returned, and once a link() made on a
\* cancelled B has returned
LinkCancels ==
    /\ \A id \in LinkRegs("early") :
          win[regs[id].t].returned => tok[regs[id].a].is_cancelled
    /\ \A id \in LinkRegs("late") : tok[regs[id].a].is_cancelled

\* the tokens whose transition was made by the listener of a link
ByLink == {a \in Tokens : win[a].origin = "link"}

\* C10 as stated: with preserve_reason A takes B's reason and B's message,
\* without it the reason PARENT.
C10_Original ==
    /\ LinkCancels
    /\ \A a \in ByLink :
          LET b == win[a].from
          IN IF win[a].preserve
             THEN tok[a].reason = tok[b].reason /\ tok[a].message = tok[b].message
             ELSE tok[a].reason = "PARENT"

\* C10 amended: after A.link(B, preserve_reason), A is cancelled before
\* B.cancel(r, m) returns, and before link() returns when B was already
\* cancelled; when it is the link that cancels A, with preserve_reason A's
\* reason is r and A's message is m if m is a non-empty string, else the
\* generic "Linked token <B> was cancelled"; without preserve_reason A's
\* reason is PARENT and its message that generic message.
C10_LinkPropagates ==
    /\ LinkCancels
    /\ \A a \in ByLink :
          LET b == win[a].from
          IN IF win[a].preserve
             THEN /\ tok[a].reason = tok[b].reason
                  /\ tok[a].message =
                        (IF Truthy(tok[b].message) THEN tok[b].message ELSE LinkedMsg(b))
             ELSE /\ tok[a].reason = "PARENT"
                  /\ tok[a].message = LinkedMsg(b)

\* C10 witness: B.cancel() has returned after its listener cancelled A,
\* with preserve_reason and a message of B's that A took over.
C10_Witness ==
    \E a \in ByLink :
        /\ win[a].preserve
        /\ win[win[a].from].returned
        /\ win[win[a].from].origin = "task"
        /\ Truthy(tok[a].message)
        /\ tok[a].reason # "PARENT"

\* the frames of cancel() calls that are in their dispatch loop
Dispatching ==
    {f \in UNION {Range(stack[k]) : k \in Tasks} : f.op = "cancel" /\ f.pc = "dispatch"}

\* C11: cancel() invokes the listeners registered at the moment of the
\* transition, in registration order (at every moment of the loop the
\* listeners before the loop's position have run once and those from it on
\* have not run), while the token is cancelled with the reason and message
\* of the call; when the call has returned True every one of them has run,
\* the raising ones and those after a raising one included, and the token
\* is cancelled.
C11_DispatchOrder ==
    /\ \A f \in Dispatching :
          /\ tok[f.t].is_cancelled
          /\ tok[f.t].reason = f.reason /\ tok[f.t].message = f.msg
          /\ f.snap = SubSeq(cbs[f.t], 1, Len(f.snap))
          /\ \A j \in 1..Len(f.snap) :
                f.snap[j].kind = "user" =>
                    /\ j < f.i => regs[f.snap[j].id].inv = 1
                    /\ j >= f.i => regs[f.snap[j].id].inv = 0
    /\ \A t \in Tokens :
          win[t].returned =>
              /\ tok[t].is_cancelled
              /\ rets[t].true = 1
              /\ \A id \in DOMAIN regs :
                    (regs[id].t = t /\ regs[id].state = "early" /\ regs[id].a = 0)
                        => regs[id].inv = 1

\* C11 witness: a cancel() has returned True on a token whose first
\* listener raises and whose second listener, registered after it, has run.
C11_Witness ==
    \E t \in Tokens :
        /\ win[t].returned
        /\ rets[t].true = 1
        /\ Len(cbs[t]) >= 2
        /\ cbs[t][1].kind = "user" /\ cbs[t][1].raises
        /\ cbs[t][2].kind = "user"
        /\ regs[cbs[t][2].id].state = "early"
        /\ regs[cbs[t][2].id].inv = 1

(***************************************************************************)
(* The scope (core/cancellable.py) and its sources (sources/*.py).         *)
(*                                                                         *)
(* SpecScope models the scope at the granularity of its handlers: entering *)
(* and leaving the async with block, a cancel() call, the firing of a      *)
(* source and the passing of time are one step each.  A cancel() on a      *)
(* token runs its listeners, and the listeners of the tokens linked to it, *)
(* within the step.                                                        *)
(***************************************************************************)
MaxTime == 3

MaxCalls == 2

Scopes == 1..5

\* a token supplied by the program (with_token); the token a scope creates
\* for itself carries the scope's number
UserToken == 11

ScopeTokens == Scopes \cup {UserToken}

\* the source objects: two timeouts (of 1 and 2 time units), a predicate
\* and a signal source
Sources == {"T1", "T2", "C", "G"}

SourceKind(x) ==
    IF x \in {"T1", "T2"} THEN "timeout" ELSE IF x = "C" THEN "condition" ELSE "signal"

\* TimeoutSource.timeout
SourceTimeout(x) == IF x = "T1" THEN 1 ELSE 2

\* CancellationSource.reason
SourceReason(x) ==
    IF x \in {"T1", "T2"} THEN "TIMEOUT" ELSE IF x = "C" THEN "CONDITION" ELSE "SIGNAL"

\* "Operation timed out"
TimeoutMsg == [k |-> "timed out", v |-> 0]

\* the message a source passes to trigger_cancellation
SourceMsg(x) == [k |-> "source", v |-> x]

\* f"Parent operation {self.context.id[:8]} cancelled"
ParentMsg(s) == [k |-> "parent", v |-> s]

\* the message of an exception raised by the body's own code
ExcMsg == [k |-> "exception", v |-> 0]

\* "Operation cancelled via token"
CheckMsg == [k |-> "via token", v |-> 0]

(***************************************************************************)
(* What the body of a scope ends with.                                     *)
(***************************************************************************)
NoExc == [kind |-> "none", reason |-> NoReason, message |-> NoMsg]

\* the host's cancellation-failure (anyio.get_cancelled_exc_class())
Cancelled == [kind |-> "cancelled", reason |-> NoReason, message |-> NoMsg]

\* an exception that is no cancellation
Error == [kind |-> "error", reason |-> NoReason, message |-> ExcMsg]

\* a CancellationError of the library (core/exceptions.py): reason, message
CancellationError(r, m) == [kind |-> "cancellation_error", reason |-> r, message |-> m]

\* token.check() on a cancelled token raises
\* ManualCancellation(self.message or "Operation cancelled via token");
\* check_async() raises the host's cancellation-failure instead
ManualCancellation(token) ==
    CancellationError("MANUAL", IF Truthy(token.message) THEN token.message ELSE CheckMsg)

\* what the body's own code ends with: nothing, the host's
\* cancellation-failure, an error, a TimeoutCancellation it raises itself
Excs == {NoExc, Cancelled, Error, CancellationError("TIMEOUT", ExcMsg)}

(***************************************************************************)
(* The programs: which scopes are constructed, from what.                  *)
(*   enter  - the scopes the program enters                                *)
(*   parent - Cancellable(parent=...)                                      *)
(*   srcs   - _sources, in order                                           *)
(*   token  - _token                                                       *)
(*   comps  - _cancellables_to_link of a scope built by combine()          *)
(*   cancels - the scopes whose cancel(), or whose token's cancel(), the   *)
(*            program calls                                                *)
(*   globally - the scopes made with register_globally=True                *)
(*   id     - context.id (operation_id)                                    *)
(*   after  - the scopes that have exited before the program enters one    *)
(***************************************************************************)
Program(name, enter, cancels, parent, srcs, token, comps) ==
    [name |-> name, enter |-> enter, cancels |-> cancels,
     parent |-> [s \in Scopes |-> IF s \in DOMAIN parent THEN parent[s] ELSE 0],
     srcs |-> [s \in Scopes |-> IF s \in DOMAIN srcs THEN srcs[s] ELSE <<>>],
     token |-> [s \in Scopes |-> IF s \in DOMAIN token THEN token[s] ELSE s],
     comps |-> [s \in Scopes |-> IF s \in DOMAIN comps THEN comps[s] ELSE <<>>],
     globally |-> {},
     id |-> [s \in Scopes |-> s],
     after |-> [s \in Scopes |-> {}]]

None == [s \in {} |-> 0]

Programs == {
    \* Cancellable.with_timeout(1) / with_timeout(2)
    Program("timeout 1", {1}, {1}, None, 1 :> <<"T1">>, None, None),
    Program("timeout 2", {1}, {1}, None, 1 :> <<"T2">>, None, None),
    \* Cancellable.with_token(token)
    Program("token", {1}, {1}, None, None, 1 :> UserToken, None),
    \* Cancellable.with_condition(predicate) / with_signal(signum)
    Program("condition", {1}, {1}, None, 1 :> <<"C">>, None, None),
    Program("signal", {1}, {1}, None, 1 :> <<"G">>, None, None),
    \* with_timeout(1).combine(with_timeout(2)) and the other way round
    Program("combine 1 2", {3}, {1}, None,
            1 :> <<"T1">> @@ 2 :> <<"T2">> @@ 3 :> <<"T1", "T2">>,
            None, 3 :> <<1, 2>>),
    Program("combine 2 1", {3}, {1}, None,
            1 :> <<"T2">> @@ 2 :> <<"T1">> @@ 3 :> <<"T2", "T1">>,
            None, 3 :> <<1, 2>>),
    \* with_condition(..).combine(with_token(token)).combine(with_timeout(2))
    Program("combine nested", {5}, {2, 4}, None,
            1 :> <<"C">> @@ 3 :> <<"C">> @@ 4 :> <<"T2">> @@ 5 :> <<"C", "T2">>,
            2 :> UserToken, 3 :> <<1, 2>> @@ 5 :> <<3, 4>>) }

\* p = Cancellable.with_condition(..) or with_token(token);
\* c = Cancellable(parent=p); g = Cancellable(parent=c)
TreePrograms == {
    Program("tree condition", {1, 2, 3}, {1}, 2 :> 1 @@ 3 :> 2, 1 :> <<"C">>, None, None),
    Program("tree token", {1, 2, 3}, {1}, 2 :> 1 @@ 3 :> 2, None, 1 :> UserToken, None) }

\* what the bodies of the scopes of a tree end with
TreeExcs == {NoExc, Cancelled}

\* programs with scopes made with register_globally=True:
\* two scopes, one with a predicate;
\* three scopes run one after the other, the third given the operation_id
\* of the first;
\* a scope followed by a scope with a timeout;
\* p = with_condition(..) and c = Cancellable(parent=p);
\* with_signal(..).combine(with_condition(..))
RegistryPrograms == {
    [Program("registry", {1, 2}, {}, None, 1 :> <<"C">>, None, None)
        EXCEPT !.globally = {1, 2}],
    [Program("registry ids", {1, 2, 3}, {}, None, None, None, None)
        EXCEPT !.globally = {1, 2, 3}, !.id = [s \in Scopes |-> IF s = 3 THEN 1 ELSE s],
               !.after = [s \in Scopes |-> IF s \in {2, 3} THEN {s - 1} ELSE {}]],
    [Program("registry age", {1, 2}, {}, None, 2 :> <<"T2">>, None, None)
        EXCEPT !.globally = {1, 2}, !.after = [s \in Scopes |-> IF s = 2 THEN {1} ELSE {}]],
    [Program("registry tree", {1, 2}, {}, 2 :> 1, 1 :> <<"C">>, None, None)
        EXCEPT !.globally = {1, 2}],
    [Program("registry combine", {3}, {}, None,
             1 :> <<"G">> @@ 2 :> <<"C">> @@ 3 :> <<"G", "C">>, None, 3 :> <<1, 2>>)
        EXCEPT !.globally = {3}] }

\* what the bodies of registered scopes end with
RegistryExcs == {NoExc, Cancelled, Error}

(***************************************************************************)
(* State of a scope, of its cancel region and of a source.                 *)
(***************************************************************************)
\* end_time = None
NoTime == -1

\* OperationContext as constructed
NewContext == [status |-> "PENDING", cancel_reason |-> NoReason,
               cancel_message |-> NoMsg, error |-> NoMsg, end_time |-> NoTime]

Terminal == {"COMPLETED", "FAILED", "CANCELLED"}

\* OperationContext.update_status: the status, and the end time when the
\* status is terminal
update_status(c, status) ==
    [c EXCEPT !.status = status,
              !.end_time = IF status \in Terminal THEN now ELSE @]

\* CancelScope.deadline of a region without deadline (math.inf); no time of
\* the model is negative
Inf == -1

\* self._scope = None
NoScope == [made |-> FALSE, entered |-> FALSE, cancel_called |-> FALSE, deadline |-> Inf]

\* anyio.CancelScope()
NewScope == [made |-> TRUE, entered |-> FALSE, cancel_called |-> FALSE, deadline |-> Inf]

\* CancelScope.cancel()
ScopeCancelled(c) == [c EXCEPT !.cancel_called = TRUE]

\* the deadline of a region has passed
Due(c, time) == c.deadline # Inf /\ time >= c.deadline

\* CancellationSource.__init__: scope, _cancel_callback (the scopes they
\* belong to, 0 for None), triggered; the monitor task (running, the time
\* its sleep ends); whether schedule_cancellation waits in the bridge
NewSource == [scope |-> 0, callback |-> 0, triggered |-> FALSE,
              monitoring |-> FALSE, wake |-> 0, queued |-> FALSE]

\* history of one scope: when it entered and whether its token was cancelled
\* by then; at exit the exception, what __aexit__ found (the context before,
\* the token, the region, the first triggered source, the time), what it
\* recorded and fired, and the exception that left the scope
NoExit == [exc |-> NoExc, before |-> NewContext, token |-> NewToken, region |-> NoScope,
           due |-> FALSE, probe |-> NoReason, at |-> 0, entered_at |-> 0,
           entered_cancelled |-> FALSE,
           after |-> NewContext, fired |-> <<>>, raised |-> NoExc]

\* shield() of a scope: len(self._shields), the status of the sub-scope it
\* yields, where the scope is ("none": before, "in": in the shielded body,
\* "out": after it); history: whether the region was cancelled when the
\* shielded body began, and at its end whether the scope's token was
\* cancelled, its deadline had passed, a source of it had run
\* trigger_cancellation, and whether the code after the shield ran
NoShield == [shields |-> 0, status |-> "PENDING", state |-> "none", before |-> FALSE,
             token |-> FALSE, due |-> FALSE, fired |-> FALSE, resumed |-> FALSE]

\* OperationRegistry.__init__: _operations (a dict, in insertion order: the
\* entries [id, op]) and _history
NewRegistry ==
    [operations |-> <<>>,     \* _operations
     history |-> <<>>,        \* _history
     added |-> <<>>]          \* history: every snapshot appended to _history

\* _current_operation of the task (0: None) and the _context_token of every
\* scope (the value that reset() restores)
NoCurrent == [op |-> 0, token |-> [s \in Scopes |-> 0]]

\* history of the exit of one scope: the value of current_operation() before
\* enter; when __aexit__ returned: the sources of the scope still
\* monitoring, whether the scope was in the live table,
\* current_operation(), and the sources in the order in which
\* _stop_monitoring stopped them
NoFin == [exited |-> FALSE, before |-> 0, monitoring |-> {}, live |-> FALSE, current |-> 0,
          stopped |-> <<>>]

\* history of a registry call: the number of the call, cancel_all(status,
\* reason) or cleanup_completed(older_than, keep_failed), and what it
\* returned
NoCall == [n |-> 0, op |-> "none", status |-> "NONE", reason |-> NoReason,
           older_than |-> 0, keep_failed |-> FALSE, returned |-> 0,
           live |-> {},    \* cancel_all: the scopes in the live table at the call,
           was |-> <<>>,   \* the status each scope had then,
           hit |-> {}]     \* and the scopes whose token or region the call cancelled

\* the listener on_token_cancel that scope s registers on its token
ScopeCb(s) == [kind |-> "scope", id |-> 0, raises |-> FALSE, target |-> s, preserve |-> FALSE]

Start(programs) ==
    /\ sc \in programs
    /\ pc = [s \in Scopes |-> "new"]
    /\ ctx = [s \in Scopes |-> NewContext]
    /\ cs = [s \in Scopes |-> NoScope]
    /\ src = [x \in Sources |-> NewSource]
    /\ now = 0
    /\ ncalls = 0
    /\ log = [s \in Scopes |-> <<"PENDING">>]
    /\ ex = [s \in Scopes |-> NoExit]
    /\ sh = [s \in Scopes |-> NoShield]
    /\ registry = NewRegistry
    /\ current = NoCurrent
    /\ enclosing = FALSE
    /\ fin = [s \in Scopes |-> NoFin]
    /\ ret = NoCall
    /\ tok = [t \in ScopeTokens |-> NewToken]
    /\ cbs = [t \in ScopeTokens |-> <<>>]
    /\ lock = <<>> /\ stack = <<>> /\ clock = 0 /\ nops = 0
    /\ win = <<>> /\ rets = <<>> /\ regs = <<>>
    /\ bridge = <<>> /\ NoUtils

InitScope == Start(Programs)

InitTree == Start(TreePrograms)

(***************************************************************************)
(* token.cancel(reason, message) with everything its listeners do, on the  *)
(* tokens w.tok and cancel regions w.cs: on_linked_cancel cancels the      *)
(* linking token, on_token_cancel the region of its scope.  A cancel() of  *)
(* a cancelled token changes nothing.                                      *)
(***************************************************************************)
\* on_token_cancel of scope s
on_token_cancel(w, s) ==
    IF w.cs[s].made /\ ~w.cs[s].cancel_called
    THEN [w EXCEPT !.cs[s] = ScopeCancelled(@)]
    ELSE w

RECURSIVE cancel(_, _, _, _), Notify(_, _, _)

cancel(w, t, r, m) ==
    IF w.tok[t].is_cancelled THEN w
    ELSE Notify([w EXCEPT !.tok[t] = [is_cancelled |-> TRUE, reason |-> r,
                                      message |-> m, cancelled_at |-> clock]], t, 1)

Notify(w, t, i) ==
    IF i > Len(cbs[t]) THEN w
    ELSE LET cb == cbs[t][i]
             w2 == IF cb.kind = "link"
                   THEN cancel(w, cb.target, LinkedReason(cb.preserve, w.tok[t]),
                               LinkedMessage(cb.preserve, w.tok[t], t))
                   ELSE IF cb.kind = "scope" THEN on_token_cancel(w, cb.target)
                   ELSE w
         IN Notify(w2, t, i + 1)

World == [tok |-> tok, cs |-> cs]

(***************************************************************************)
(* OperationRegistry (core/registry.py): register and unregister.          *)
(***************************************************************************)
HistoryLimit == 2

\* the keys of the dict d
Keys(d) == {d[i].id : i \in 1..Len(d)}

\* d[id]
Get(d, id) == LET i == CHOOSE i \in 1..Len(d) : d[i].id = id IN d[i].op

\* d[id] = op: a new key is added at the end, an old one keeps its place
Set(d, id, op) ==
    IF id \in Keys(d)
    THEN [i \in 1..Len(d) |-> IF d[i].id = id THEN [id |-> id, op |-> op] ELSE d[i]]
    ELSE Append(d, [id |-> id, op |-> op])

\* d without the key id
Pop(d, id) == SelectSeq(d, LAMBDA e : e.id # id)

\* operation.context.model_copy(deep=True)
model_copy(id, c) == [id |-> id, ctx |-> c]

\* a history that is never cut
Uncut(h) == h

\* self._history = self._history[-self._history_limit:]
Limit(h) ==
    IF Len(h) > HistoryLimit THEN SubSeq(h, Len(h) - HistoryLimit + 1, Len(h)) ELSE h

\* OperationRegistry.register(operation)
register(r, s) == [r EXCEPT !.operations = Set(@, sc.id[s], s)]

\* OperationRegistry.unregister(operation_id), the contexts being c
unregister(r, id, c) ==
    IF id \in Keys(r.operations)
    THEN LET snapshot == model_copy(id, c[Get(r.operations, id)])
         IN [operations |-> Pop(r.operations, id),
             history |-> Limit(Append(r.history, snapshot)),
             added |-> Append(r.added, snapshot)]
    ELSE r

\* the scopes in the live table
Live(r) == {r.operations[i].op : i \in 1..Len(r.operations)}

(***************************************************************************)
(* Cancellable.__aenter__                                                  *)
(***************************************************************************)
\* history: the statuses a context has held, in order
Logged(l, status) == IF l[Len(l)] = status THEN l ELSE Append(l, status)

RECURSIVE collect_all_tokens(_, _)

\* Cancellable._collect_all_tokens
collect_all_tokens(cancellables, result) ==
    IF cancellables = <<>> THEN result
    ELSE LET c == Head(cancellables)
             r1 == IF sc.token[c] \in Range(result) THEN result
                   ELSE Append(result, sc.token[c])
             r2 == IF sc.comps[c] # <<>> THEN collect_all_tokens(sc.comps[c], r1) ELSE r1
         IN collect_all_tokens(Tail(cancellables), r2)

\* the link() calls of __aenter__, in order: the token linked to and
\* preserve_reason
Links(s) ==
    LET all == collect_all_tokens(sc.comps[s], <<>>)
    IN (IF sc.parent[s] # 0 THEN <<[b |-> sc.token[sc.parent[s]], p |-> FALSE]>> ELSE <<>>)
       \o [i \in 1..Len(all) |-> [b |-> all[i], p |-> TRUE]]

RECURSIVE LinkNow(_, _, _, _)

\* link() on a token that is already cancelled calls on_linked_cancel at once
LinkNow(w, t, links, i) ==
    IF i > Len(links) THEN w
    ELSE LET l == links[i]
             w2 == IF w.tok[l.b].is_cancelled
                   THEN cancel(w, t, LinkedReason(l.p, w.tok[l.b]),
                               LinkedMessage(l.p, w.tok[l.b], l.b))
                   ELSE w
         IN LinkNow(w2, t, links, i + 1)

\* the listeners of token b once scope s has entered
Registered(s, b) ==
    LET mine == SelectSeq(Links(s), LAMBDA l : l.b = b)
    IN cbs[b] \o [i \in 1..Len(mine) |-> LinkCb(0, sc.token[s], mine[i].p)]
              \o (IF b = sc.token[s] THEN <<ScopeCb(s)>> ELSE <<>>)

\* no source touches the region
NoMonitoring(c, xs, i) == c

RECURSIVE start_monitoring(_, _, _)

\* _setup_monitoring on the region c: every TimeoutSource sets the deadline
start_monitoring(c, xs, i) ==
    IF i > Len(xs) THEN c
    ELSE start_monitoring(
             IF SourceKind(xs[i]) = "timeout"
             THEN [c EXCEPT !.deadline = now + SourceTimeout(xs[i])] ELSE c,
             xs, i + 1)

\* A task whose enclosing region is cancelled gets the cancellation-failure
\* at the first await of __aenter__: the programs do not enter a scope then.
Enter(s) ==
    /\ s \in sc.enter
    /\ pc[s] = "new"
    /\ \A q \in sc.after[s] : pc[q] = "done"
    /\ ~enclosing
    /\ LET t == sc.token[s]
           w == LinkNow(World, t, Links(s), 1)
           region == IF w.tok[t].is_cancelled THEN ScopeCancelled(NewScope) ELSE NewScope
       IN /\ tok' = w.tok
          /\ cbs' = [b \in ScopeTokens |-> Registered(s, b)]
          /\ cs' = [w.cs EXCEPT ![s] =
                       [start_monitoring(region, sc.srcs[s], 1) EXCEPT !.entered = TRUE]]
    /\ src' = [x \in Sources |->
                  IF x \in Range(sc.srcs[s])
                  THEN [src[x] EXCEPT !.scope = s, !.callback = s, !.monitoring = TRUE,
                                      !.wake = now + SourceTimeout(x)]
                  ELSE src[x]]
    /\ ctx' = [ctx EXCEPT ![s] = update_status(@, "RUNNING")]
    /\ log' = [log EXCEPT ![s] = Logged(@, "RUNNING")]
    /\ pc' = [pc EXCEPT ![s] = "body"]
    /\ ex' = [ex EXCEPT ![s].entered_at = now,
                         ![s].entered_cancelled = tok[sc.token[s]].is_cancelled]
    /\ current' = [op |-> s, token |-> [current.token EXCEPT ![s] = current.op]]
    /\ registry' = IF s \in sc.globally THEN register(registry, s) ELSE registry
    /\ fin' = [fin EXCEPT ![s].before = current.op]
    /\ UNCHANGED <<sc, now, ncalls, enclosing, ret>>

(***************************************************************************)
(* Cancellable.__aexit__                                                   *)
(***************************************************************************)
\* the reason of the first source of the scope whose triggered flag is set
Probe(s) ==
    LET xs == SelectSeq(sc.srcs[s], LAMBDA x : src[x].triggered)
    IN IF xs = <<>> THEN NoReason ELSE SourceReason(xs[1])

\* the sources are probed whether or not the region was cancelled
CancelReasonProbing(c, token, region, due, probe) ==
    IF c.cancel_reason # NoReason THEN c
    ELSE IF token.is_cancelled
    THEN [c EXCEPT !.cancel_reason = token.reason, !.cancel_message = token.message]
    ELSE IF region.made /\ region.cancel_called /\ due
    THEN [c EXCEPT !.cancel_reason = "TIMEOUT", !.cancel_message = TimeoutMsg]
    ELSE IF probe # NoReason THEN [c EXCEPT !.cancel_reason = probe]
    ELSE [c EXCEPT !.cancel_reason = "MANUAL"]

\* the branch for the host's cancellation-failure (cancellable.py 365-398)
CancelReason(c, token, region, due, probe) ==
    IF c.cancel_reason # NoReason THEN c
    ELSE IF token.is_cancelled
    THEN [c EXCEPT !.cancel_reason = token.reason, !.cancel_message = token.message]
    ELSE IF region.made /\ region.cancel_called
    THEN IF due
         THEN [c EXCEPT !.cancel_reason = "TIMEOUT", !.cancel_message = TimeoutMsg]
         ELSE IF probe # NoReason THEN [c EXCEPT !.cancel_reason = probe]
         ELSE [c EXCEPT !.cancel_reason = "MANUAL"]
    ELSE [c EXCEPT !.cancel_reason = "MANUAL"]

\* the context after the status handling (cancellable.py 359-420)
Exited(c, e, token, region, due, probe) ==
    IF e.kind = "cancelled"
    THEN update_status(CancelReason(c, token, region, due, probe), "CANCELLED")
    ELSE IF e.kind = "cancellation_error"
    THEN update_status([c EXCEPT !.cancel_reason = e.reason,
                                 !.cancel_message = e.message], "CANCELLED")
    ELSE IF e.kind = "error"
    THEN update_status([c EXCEPT !.error = e.message], "FAILED")
    ELSE update_status(c, "COMPLETED")

\* the family of callbacks that is triggered
Family(e) ==
    IF e.kind \in {"cancelled", "cancellation_error"} THEN "cancel"
    ELSE IF e.kind = "error" THEN "error" ELSE "complete"

\* suppress_exception = False
suppress_exception == FALSE

\* the scope swallows the exception
Swallowed(e) == NoExc

\* the exception that leaves the scope: __aexit__ returns suppress_exception
Raised(e) == IF suppress_exception THEN NoExc ELSE e

(***************************************************************************)
(* The finally block of __aexit__ (cancellable.py 425-448).  Every await   *)
(* that is a checkpoint raises the cancellation-failure while the region   *)
(* around the scope is cancelled, and that failure is no Exception: it     *)
(* leaves _stop_monitoring and the finally block.  The checkpoints are the *)
(* lock of SignalSource._unregister_handlers and the lock of               *)
(* OperationRegistry.unregister; TimeoutSource.stop_monitoring catches the *)
(* failure after it has cancelled its task, ConditionSource.stop_monitoring*)
(* after it has cancelled its task group.                                  *)
(***************************************************************************)
\* stop_monitoring() of source x is left by the cancellation-failure
StopRaises(x) == enclosing /\ SourceKind(x) = "signal" /\ src[x].monitoring

\* the sources of s that _stop_monitoring stops: those before the first
\* whose stop_monitoring() is left by the cancellation-failure
Stopped(s) ==
    LET xs == sc.srcs[s]
    IN {xs[i] : i \in {i \in 1..Len(xs) : \A j \in 1..i : ~StopRaises(xs[j])}}

\* _stop_monitoring: for source in self._sources, in that order
StopOrder(s) == SelectSeq(sc.srcs[s], LAMBDA x : x \in Stopped(s))

\* registry.unregister(self.context.id) is reached and returns
Unregisters(s) == Stopped(s) = Range(sc.srcs[s]) /\ s \in sc.globally /\ ~enclosing

\* the finally block is left by the cancellation-failure
Interrupted(s) == Stopped(s) # Range(sc.srcs[s]) \/ (s \in sc.globally /\ enclosing)

\* the body of scope s ends with e (no exception, or the exception raised);
\* a cancellation-failure raised by the checkpoint of shield() reaches
\* __aexit__ as it is
Exit(s, e) ==
    /\ pc[s] = "body" \/ (pc[s] = "raising" /\ e = Cancelled)
    /\ LET t == sc.token[s]
           due == Due(cs[s], now)
           c == Exited(ctx[s], e, tok[t], cs[s], due, Probe(s))
       IN /\ ctx' = [ctx EXCEPT ![s] = c]
          /\ log' = [log EXCEPT ![s] = Logged(@, c.status)]
          /\ ex' = [ex EXCEPT ![s] =
                       [exc |-> e, before |-> ctx[s], token |-> tok[t], region |-> cs[s],
                        due |-> due, probe |-> Probe(s), at |-> now,
                        entered_at |-> @.entered_at,
                        entered_cancelled |-> @.entered_cancelled, after |-> c,
                        fired |-> <<[family |-> Family(e), status |-> c.status]>>,
                        raised |-> IF Interrupted(s) THEN Cancelled ELSE Raised(e)]]
          /\ registry' = IF Unregisters(s)
                          THEN unregister(registry, sc.id[s], [ctx EXCEPT ![s] = c])
                          ELSE registry
    /\ cs' = [cs EXCEPT ![s].entered = FALSE]
    /\ src' = [x \in Sources |->
                  IF x \in Stopped(s) THEN [src[x] EXCEPT !.monitoring = FALSE]
                  ELSE src[x]]
    /\ current' = IF Interrupted(s) THEN current
                   ELSE [current EXCEPT !.op = current.token[s]]
    /\ fin' = [fin EXCEPT ![s] =
                  [exited |-> TRUE, before |-> @.before,
                   monitoring |-> {x \in Range(sc.srcs[s]) : src'[x].monitoring},
                   live |-> s \in Live(registry'),
                   current |-> current'.op,
                   stopped |-> StopOrder(s)]]
    /\ pc' = [pc EXCEPT ![s] = "done"]
    /\ UNCHANGED <<sc, tok, cbs, now, ncalls, enclosing, ret>>

\* the body calls token.check() on its cancelled token, which raises
Check(s) ==
    /\ tok[sc.token[s]].is_cancelled
    /\ Exit(s, ManualCancellation(tok[sc.token[s]]))

(***************************************************************************)
(* cancel() calls made by the program.                                     *)
(***************************************************************************)
\* the scopes the program constructed
Constructed ==
    {s \in Scopes : s \in sc.enter \/ \E c \in Scopes : s \in Range(sc.comps[c])}

\* the (reason, message) pairs passed to cancel()
CancelArgs == {<<"MANUAL", NoMsg>>, <<"MANUAL", UserMsg(1)>>}

\* token.cancel(reason, message)
TokenCancel(t, r, m) ==
    /\ ncalls < MaxCalls
    /\ \E s \in sc.cancels : t = sc.token[s]
    /\ ncalls' = ncalls + 1
    /\ LET w == cancel(World, t, r, m)
       IN tok' = w.tok /\ cs' = w.cs
    /\ UNCHANGED <<sc, pc, ctx, cbs, src, now, log, ex>>

Children(s) == {c \in Constructed : sc.parent[c] = s}

RECURSIVE CancellableCancel(_, _, _, _, _), CancelChildren(_, _, _)

\* Cancellable.cancel(reason, message, propagate_to_children)
CancellableCancel(w, s, r, m, propagate) ==
    LET w1 == cancel(w, sc.token[s], r, m)
    IN IF propagate THEN CancelChildren(w1, s, Children(s)) ELSE w1

\* for child in self._children: await child.cancel(PARENT, ..., True)
CancelChildren(w, s, children) ==
    IF children = {} THEN w
    ELSE LET c == CHOOSE c \in children : TRUE
         IN CancelChildren(CancellableCancel(w, c, "PARENT", ParentMsg(s), TRUE),
                           s, children \ {c})

\* the program calls scope.cancel(reason, message, propagate_to_children)
ScopeCancel(s, r, m, propagate) ==
    /\ ncalls < MaxCalls
    /\ s \in sc.cancels
    /\ ncalls' = ncalls + 1
    /\ LET w == CancellableCancel(World, s, r, m, propagate)
       IN tok' = w.tok /\ cs' = w.cs
    /\ UNCHANGED <<sc, pc, ctx, cbs, src, now, log, ex>>

(***************************************************************************)
(* The sources.                                                            *)
(***************************************************************************)
\* Cancellable._on_source_cancelled
on_source_cancelled(c, reason, message) ==
    update_status([c EXCEPT !.cancel_reason = reason, !.cancel_message = message],
                  "CANCELLED")

\* CancellationSource.trigger_cancellation(message) of source x
trigger_cancellation(x) ==
    LET s == src[x].scope
        k == src[x].callback
    IN IF s # 0 /\ ~cs[s].cancel_called
       THEN /\ ctx' = IF k # 0
                      THEN [ctx EXCEPT ![k] =
                               on_source_cancelled(@, SourceReason(x), SourceMsg(x))]
                      ELSE ctx
            /\ log' = IF k # 0 THEN [log EXCEPT ![k] = Logged(@, "CANCELLED")] ELSE log
            /\ cs' = [cs EXCEPT ![s] = ScopeCancelled(@)]
       ELSE UNCHANGED <<ctx, log, cs>>

\* ConditionSource._monitor_condition: the predicate returns true
ConditionMet(x) ==
    /\ SourceKind(x) = "condition"
    /\ src[x].monitoring
    /\ ~src[x].triggered
    /\ src' = [src EXCEPT ![x].triggered = TRUE]
    /\ trigger_cancellation(x)
    /\ UNCHANGED <<sc, pc, tok, cbs, now, ncalls, ex>>

\* SignalSource._on_signal: a signal arrives while the handlers are installed
OnSignal(x) ==
    /\ SourceKind(x) = "signal"
    /\ src[x].monitoring
    /\ ~src[x].triggered
    /\ src' = [src EXCEPT ![x].triggered = TRUE, ![x].queued = (src[x].scope # 0)]
    /\ UNCHANGED <<sc, pc, ctx, cs, tok, cbs, now, ncalls, log, ex>>

\* the bridge runs schedule_cancellation
ScheduleCancellation(x) ==
    /\ src[x].queued
    /\ src' = [src EXCEPT ![x].queued = FALSE]
    /\ trigger_cancellation(x)
    /\ UNCHANGED <<sc, pc, tok, cbs, now, ncalls, ex>>

\* TimeoutSource.start_monitoring, monitor(): the sleep is over
TimeoutMonitor(x) ==
    /\ SourceKind(x) = "timeout"
    /\ src[x].monitoring
    /\ ~src[x].triggered
    /\ now >= src[x].wake
    /\ src' = [src EXCEPT ![x].triggered = TRUE]
    /\ UNCHANGED <<sc, pc, ctx, cs, tok, cbs, now, ncalls, log, ex>>

\* time passes; a region whose deadline is reached is cancelled by the host.
\* Time is only followed while a scope with a timeout is to be entered or is
\* running.
Tick ==
    /\ now < MaxTime
    /\ \E s \in sc.enter :
          /\ pc[s] # "done"
          /\ \E x \in Range(sc.srcs[s]) : SourceKind(x) = "timeout"
    /\ now' = now + 1
    /\ cs' = [s \in Scopes |->
                 IF cs[s].entered /\ Due(cs[s], now + 1) THEN ScopeCancelled(cs[s])
                 ELSE cs[s]]
    /\ UNCHANGED <<sc, pc, ctx, src, tok, cbs, ncalls, log, ex>>

(***************************************************************************)
(* Cancellable.shield                                                      *)
(***************************************************************************)
\* the checkpoint never raises
NoCheckpoint(c, time) == FALSE

\* anyio.sleep(0) in a task whose cancel region c is cancelled, or past its
\* deadline, raises the cancellation-failure
Checkpoint(c, time) == c.cancel_called \/ Due(c, time)

\* a source of scope s has run trigger_cancellation
Fired(s) ==
    \E x \in Range(sc.srcs[s]) :
        SourceKind(x) # "timeout" /\ src[x].triggered /\ ~src[x].queued

\* async with scope.shield(): up to the yield.  The body then runs inside
\* anyio.CancelScope(shield=True): no cancellation of an enclosing region
\* is delivered to it.
ShieldEnter(s) ==
    /\ pc[s] = "body"
    /\ sh[s].state = "none"
    /\ pc' = [pc EXCEPT ![s] = "shield"]
    /\ sh' = [sh EXCEPT ![s].shields = @ + 1, ![s].status = "SHIELDED",
                         ![s].state = "in", ![s].before = Checkpoint(cs[s], now)]
    /\ UNCHANGED <<sc, ctx, cs, src, tok, cbs, now, ncalls, log, ex>>

\* the shielded body has ended: the finally block, the end of the shielded
\* region and the checkpoint await anyio.sleep(0)
ShieldExit(s) ==
    /\ pc[s] = "shield"
    /\ pc' = [pc EXCEPT ![s] = IF Checkpoint(cs[s], now) THEN "raising" ELSE "body"]
    /\ sh' = [sh EXCEPT ![s].shields = @ - 1, ![s].state = "out",
                         ![s].token = tok[sc.token[s]].is_cancelled,
                         ![s].due = Due(cs[s], now),
                         ![s].fired = Fired(s),
                         ![s].resumed = ~Checkpoint(cs[s], now)]
    /\ UNCHANGED <<sc, ctx, cs, src, tok, cbs, now, ncalls, log, ex>>

(***************************************************************************)
(* The region around the program's scopes (a task group, move_on_after).   *)
(***************************************************************************)
\* the enclosing region is cancelled while a scope is running
EnclosingCancel ==
    /\ ~enclosing
    /\ \E s \in Scopes : pc[s] \in {"body", "shield", "raising"}
    /\ enclosing' = TRUE
    /\ UNCHANGED <<sc, pc, ctx, cs, src, tok, cbs, now, ncalls, log, ex, sh,
                   registry, current, fin, ret>>

(***************************************************************************)
(* OperationRegistry: the calls made by the program.  A call made in a     *)
(* cancelled region raises at the registry's lock and changes nothing.     *)
(* A program makes one call of cleanup_completed or cancel_all, and it     *)
(* registers by itself only scopes that have ended.                        *)
(***************************************************************************)
MaxRegs == 1

\* "Bulk cancellation"
BulkMsg == [k |-> "bulk", v |-> 0]

\* await registry.register(operation)
Register(s) ==
    /\ ncalls < MaxRegs
    /\ ~enclosing
    /\ s \in Constructed
    /\ pc[s] = "done"
    /\ ncalls' = ncalls + 1
    /\ registry' = register(registry, s)
    /\ UNCHANGED <<sc, pc, ctx, cs, src, tok, cbs, now, log, ex, sh,
                   current, enclosing, fin, ret>>

\* await registry.unregister(operation_id)
Unregister(id) ==
    /\ ncalls < MaxRegs
    /\ ~enclosing
    /\ id \in Keys(registry.operations)
    /\ ncalls' = ncalls + 1
    /\ registry' = unregister(registry, id, ctx)
    /\ UNCHANGED <<sc, pc, ctx, cs, src, tok, cbs, now, log, ex, sh,
                   current, enclosing, fin, ret>>

\* a test that looks at the status only
Ended(c, older_than, keep_failed) == c.status \in Terminal

\* the test of cleanup_completed on one context
Removable(c, older_than, keep_failed) ==
    /\ c.status \in Terminal
    /\ ~(keep_failed /\ c.status = "FAILED")
    /\ ~(older_than # 0 /\ c.end_time # NoTime /\ now - c.end_time < older_than)

\* the snapshots of the entries of d, in order
Snapshots(d) == [i \in 1..Len(d) |-> model_copy(d[i].id, ctx[d[i].op])]

\* await registry.cleanup_completed(older_than, keep_failed); older_than = 0
\* stands for None
CleanupCompleted(older_than, keep_failed) ==
    /\ ret.n = 0
    /\ ~enclosing
    /\ LET d == registry.operations
           to_remove == SelectSeq(d, LAMBDA e : Removable(ctx[e.op], older_than, keep_failed))
           kept == SelectSeq(d, LAMBDA e : ~Removable(ctx[e.op], older_than, keep_failed))
       IN /\ registry' = [operations |-> kept,
                          history |-> Limit(registry.history \o Snapshots(to_remove)),
                          added |-> registry.added \o Snapshots(to_remove)]
          /\ ret' = [NoCall EXCEPT !.n = 1, !.op = "cleanup_completed",
                                   !.older_than = older_than, !.keep_failed = keep_failed,
                                   !.returned = Len(to_remove)]
    /\ UNCHANGED <<sc, pc, ctx, cs, src, tok, cbs, now, ncalls, log, ex, sh,
                   current, enclosing, fin>>

RECURSIVE CancelEach(_, _, _, _, _)

\* for operation in to_cancel: await operation.cancel(reason, message)
CancelEach(w, to_cancel, i, r, m) ==
    IF i > Len(to_cancel) THEN w
    ELSE CancelEach(CancellableCancel(w, to_cancel[i].op, r, m, TRUE), to_cancel, i + 1, r, m)

\* a cancel_all that takes no notice of its filter
Unfiltered(d, status) == d

\* to_cancel: the values of the live table; `if status:` those with that status
Matching(d, status) ==
    IF status # "NONE" THEN SelectSeq(d, LAMBDA e : ctx[e.op].status = status) ELSE d

\* await registry.cancel_all(status, reason, message); status "NONE" stands
\* for None
CancelAll(status, r, m) ==
    /\ ret.n = 0
    /\ ~enclosing
    /\ LET d == registry.operations
           to_cancel == Matching(d, status)
           w == CancelEach(World, to_cancel, 1, r, IF Truthy(m) THEN m ELSE BulkMsg)
       IN /\ tok' = w.tok
          /\ cs' = w.cs
          /\ ret' = [NoCall EXCEPT
                        !.n = 1, !.op = "cancel_all",
                        !.status = status, !.reason = r,
                        !.returned = Len(to_cancel),
                        !.live = Live(registry),
                        !.was = [s \in Scopes |-> ctx[s].status],
                        !.hit = {s \in Constructed :
                                    \/ /\ w.tok[sc.token[s]].is_cancelled
                                       /\ ~tok[sc.token[s]].is_cancelled
                                    \/ /\ w.cs[s].cancel_called
                                       /\ ~cs[s].cancel_called}]
    /\ UNCHANGED <<sc, pc, ctx, src, cbs, now, ncalls, log, ex, sh,
                   registry, current, enclosing, fin>>

NextScope ==
    \/ \E s \in Scopes : Enter(s) /\ UNCHANGED <<tokenRest, sh>>
    \/ \E s \in Scopes, e \in Excs :
          Exit(s, e) /\ UNCHANGED <<tokenRest, sh>>
    \/ \E s \in Scopes : Check(s) /\ UNCHANGED <<tokenRest, sh>>
    \/ \E t \in ScopeTokens, a \in CancelArgs :
          TokenCancel(t, a[1], a[2]) /\ UNCHANGED <<tokenRest, sh, registryVars>>
    \/ \E s \in Scopes, a \in CancelArgs, p \in BOOLEAN :
          ScopeCancel(s, a[1], a[2], p)
          /\ UNCHANGED <<tokenRest, sh, registryVars>>
    \/ \E x \in Sources :
          ConditionMet(x) /\ UNCHANGED <<tokenRest, sh, registryVars>>
    \/ \E x \in Sources : OnSignal(x) /\ UNCHANGED <<tokenRest, sh, registryVars>>
    \/ \E x \in Sources :
          ScheduleCancellation(x) /\ UNCHANGED <<tokenRest, sh, registryVars>>
    \/ \E x \in Sources :
          TimeoutMonitor(x) /\ UNCHANGED <<tokenRest, sh, registryVars>>
    \/ Tick /\ UNCHANGED <<tokenRest, sh, registryVars>>

SpecScope == InitScope /\ [][NextScope]_vars

NextTree ==
    \/ \E s \in Scopes : Enter(s) /\ UNCHANGED <<tokenRest, sh>>
    \/ \E s \in Scopes, e \in TreeExcs :
          Exit(s, e) /\ UNCHANGED <<tokenRest, sh>>
    \/ \E t \in ScopeTokens, a \in CancelArgs :
          TokenCancel(t, a[1], a[2]) /\ UNCHANGED <<tokenRest, sh, registryVars>>
    \/ \E s \in Scopes, a \in CancelArgs, p \in BOOLEAN :
          ScopeCancel(s, a[1], a[2], p)
          /\ UNCHANGED <<tokenRest, sh, registryVars>>
    \/ \E x \in Sources :
          ConditionMet(x) /\ UNCHANGED <<tokenRest, sh, registryVars>>

SpecTree == InitTree /\ [][NextTree]_vars

\* the programs with one scope and no combine()
ShieldPrograms == {p \in Programs : p.name \in {"timeout 1", "token", "condition", "signal"}}

InitShield == Start(ShieldPrograms)

\* what the code of a scope that uses shield() ends with
ShieldExcs == {NoExc, Cancelled}

NextShield ==
    \/ \E s \in Scopes : Enter(s) /\ UNCHANGED <<tokenRest, sh>>
    \/ \E s \in Scopes : ShieldEnter(s) /\ UNCHANGED <<tokenRest, registryVars>>
    \/ \E s \in Scopes : ShieldExit(s) /\ UNCHANGED <<tokenRest, registryVars>>
    \/ \E s \in Scopes, e \in ShieldExcs : Exit(s, e) /\ UNCHANGED <<tokenRest, sh>>
    \/ \E t \in ScopeTokens, a \in CancelArgs :
          TokenCancel(t, a[1], a[2]) /\ UNCHANGED <<tokenRest, sh, registryVars>>
    \/ \E x \in Sources : ConditionMet(x) /\ UNCHANGED <<tokenRest, sh, registryVars>>
    \/ \E x \in Sources : OnSignal(x) /\ UNCHANGED <<tokenRest, sh, registryVars>>
    \/ \E x \in Sources : ScheduleCancellation(x) /\ UNCHANGED <<tokenRest, sh, registryVars>>
    \/ \E x \in Sources : TimeoutMonitor(x) /\ UNCHANGED <<tokenRest, sh, registryVars>>
    \/ Tick /\ UNCHANGED <<tokenRest, sh, registryVars>>

SpecShield == InitShield /\ [][NextShield]_vars

\* the exit of registered scopes, with the region around them
ExitPrograms ==
    {p \in RegistryPrograms : p.name \in {"registry", "registry combine"}}

InitExit == Start(ExitPrograms)

NextExit ==
    \/ \E s \in Scopes : Enter(s) /\ UNCHANGED <<tokenRest, sh>>
    \/ \E s \in Scopes, e \in RegistryExcs : Exit(s, e) /\ UNCHANGED <<tokenRest, sh>>
    \/ EnclosingCancel /\ UNCHANGED tokenRest
    \/ \E x \in Sources : ConditionMet(x) /\ UNCHANGED <<tokenRest, sh, registryVars>>
    \/ \E x \in Sources : OnSignal(x) /\ UNCHANGED <<tokenRest, sh, registryVars>>
    \/ \E x \in Sources : ScheduleCancellation(x) /\ UNCHANGED <<tokenRest, sh, registryVars>>

SpecExit == InitExit /\ [][NextExit]_vars

\* the live table and the history
TablePrograms ==
    {p \in RegistryPrograms : p.name \in {"registry", "registry ids", "registry age"}}

InitRegistry == Start(TablePrograms)

\* the arguments of cleanup_completed and cancel_all that the programs use
OlderThan == {0, 1}

Statuses == {"NONE", "RUNNING", "CANCELLED"}

BulkArgs == {<<"MANUAL", NoMsg>>, <<"SIGNAL", UserMsg(1)>>}

NextRegistry ==
    \/ \E s \in Scopes : Enter(s) /\ UNCHANGED <<tokenRest, sh>>
    \/ \E s \in Scopes, e \in RegistryExcs : Exit(s, e) /\ UNCHANGED <<tokenRest, sh>>
    \/ \E s \in Scopes : Register(s) /\ UNCHANGED tokenRest
    \/ \E s \in Scopes : Unregister(sc.id[s]) /\ UNCHANGED tokenRest
    \/ \E o \in OlderThan, k \in BOOLEAN : CleanupCompleted(o, k) /\ UNCHANGED tokenRest
    \/ \E x \in Sources : ConditionMet(x) /\ UNCHANGED <<tokenRest, sh, registryVars>>
    \/ Tick /\ UNCHANGED <<tokenRest, sh, registryVars>>

SpecRegistry == InitRegistry /\ [][NextRegistry]_vars

\* cancel_all
BulkPrograms == {p \in RegistryPrograms : p.name \in {"registry", "registry tree"}}

InitBulk == Start(BulkPrograms)

NextBulk ==
    \/ \E s \in Scopes : Enter(s) /\ UNCHANGED <<tokenRest, sh>>
    \/ \E s \in Scopes, e \in RegistryExcs : Exit(s, e) /\ UNCHANGED <<tokenRest, sh>>
    \/ \E st \in Statuses, a \in BulkArgs : CancelAll(st, a[1], a[2]) /\ UNCHANGED tokenRest
    \/ \E x \in Sources : ConditionMet(x) /\ UNCHANGED <<tokenRest, sh, registryVars>>

SpecBulk == InitBulk /\ [][NextBulk]_vars

(***************************************************************************)
(* Claims about the scope, checked under SpecScope and SpecTree.           *)
(***************************************************************************)
Done(s) == pc[s] = "done"

\* the scopes made by with_timeout(d), and their d
TimeoutScopes ==
    {s \in sc.enter : /\ sc.comps[s] = <<>>
                      /\ Len(sc.srcs[s]) = 1
                      /\ SourceKind(sc.srcs[s][1]) = "timeout"}

Timeout(s) == SourceTimeout(sc.srcs[s][1])

\* the body of s is running and d has elapsed since enter
Elapsed(s) == pc[s] = "body" /\ now >= ex[s].entered_at + Timeout(s)

\* the body of s raised the host's cancellation-failure once d had elapsed
TimedOut(s) ==
    Done(s) /\ ex[s].exc = Cancelled /\ ex[s].at >= ex[s].entered_at + Timeout(s)

\* C3 as stated: a scope with timeout d whose body still runs once d has
\* elapsed is cancelled (a checkpoint raises); when the body raised the
\* cancellation-failure after d, that failure left the scope and the scope
\* recorded status CANCELLED and cancel_reason TIMEOUT.
C3_Original ==
    \A s \in TimeoutScopes :
        /\ Elapsed(s) => cs[s].cancel_called
        /\ TimedOut(s) =>
              /\ ex[s].raised = Cancelled
              /\ ex[s].after.status = "CANCELLED"
              /\ ex[s].after.cancel_reason = "TIMEOUT"

\* C3 amended: as C3, but the recorded cancel_reason is TIMEOUT only if the
\* scope's token has not been cancelled by the time of the exit; if it has,
\* the reason recorded is the token's.
C3_Timeout ==
    \A s \in TimeoutScopes :
        /\ Elapsed(s) => cs[s].cancel_called
        /\ TimedOut(s) =>
              /\ ex[s].raised = Cancelled
              /\ ex[s].after.status = "CANCELLED"
              /\ ex[s].after.cancel_reason =
                    (IF ex[s].token.is_cancelled THEN ex[s].token.reason ELSE "TIMEOUT")

\* C3 witness: a scope entered after time 0 timed out, untouched by cancel()
C3_Witness ==
    \E s \in TimeoutScopes :
        /\ TimedOut(s)
        /\ ex[s].entered_at > 0
        /\ ~ex[s].token.is_cancelled
        /\ ex[s].after.cancel_reason = "TIMEOUT"
        /\ ex[s].raised = Cancelled

\* what every exit does, whatever the exception
ExitOnce(s) ==
    /\ Len(ex[s].fired) = 1
    /\ ex[s].fired[1].status = ex[s].after.status
    /\ ex[s].after.status \in Terminal
    /\ ctx[s].status \in Terminal
    /\ ex[s].raised = ex[s].exc

C5_Original ==
    \A s \in Scopes :
        /\ pc[s] = "body" => ctx[s].status = "RUNNING"
        /\ Len(log[s]) <= 3
        /\ log[s][1] = "PENDING"
        /\ Len(log[s]) >= 2 => log[s][2] = "RUNNING"
        /\ Len(log[s]) = 3 => log[s][3] \in Terminal

\* the parent scope p has been cancelled: its token is cancelled (by cancel()
\* or through the token), or one of its sources fired and cancelled it
ParentCancelled(p) ==
    \/ tok[sc.token[p]].is_cancelled
    \/ cs[p].cancel_called /\ \E x \in Range(sc.srcs[p]) : src[x].triggered

\* every scope of the program has entered and exited: nothing is left to
\* propagate
Quiet == \A s \in sc.enter : Done(s)

\* C6: once a parent scope is cancelled - by cancel(), through its token or
\* by one of its sources - the token of every child is eventually cancelled
\* with reason PARENT, and so for the children of the children: when all
\* the scopes have entered and exited, the token of every child of a
\* cancelled parent is cancelled with reason PARENT.
C6_Original ==
    \A c \in Scopes :
        (sc.parent[c] # 0 /\ Quiet /\ ParentCancelled(sc.parent[c])) =>
            tok[sc.token[c]].is_cancelled /\ tok[sc.token[c]].reason = "PARENT"

\* the scopes built by combine()
Combined == {s \in sc.enter : sc.comps[s] # <<>>}

\* the shortest of the timeouts of the components of s
FirstTimeout(s) ==
    LET ds == {SourceTimeout(x) : x \in {y \in Range(sc.srcs[s]) : SourceKind(y) = "timeout"}}
    IN CHOOSE d \in ds : \A e \in ds : d <= e

HasTimeout(s) == \E x \in Range(sc.srcs[s]) : SourceKind(x) = "timeout"

\* a component of s has fired: a timeout has elapsed since enter, a
\* component's token is cancelled, a predicate or signal source has triggered
ComponentFired(s) ==
    \/ HasTimeout(s) /\ now >= ex[s].entered_at + FirstTimeout(s)
    \/ \E t \in Range(collect_all_tokens(sc.comps[s], <<>>)) : tok[t].is_cancelled
    \/ \E x \in Range(sc.srcs[s]) : SourceKind(x) # "timeout" /\ src[x].triggered

\* C7: a scope built by combine() is cancelled (a checkpoint of its body
\* raises) as soon as the first of its components has fired, the earliest of
\* the timeouts in whatever order they were combined; when the body raised
\* the cancellation-failure once the earliest timeout had elapsed, with no
\* token cancelled and no other source fired, cancel_reason is TIMEOUT, and
\* when a component token was the first to fire it is that token's reason.
C7_Original ==
    \A s \in Combined :
        /\ (pc[s] = "body" /\ ComponentFired(s)) => cs[s].cancel_called
        /\ (/\ Done(s) /\ ex[s].exc = Cancelled /\ HasTimeout(s)
            /\ ex[s].at >= ex[s].entered_at + FirstTimeout(s)
            /\ ~ex[s].token.is_cancelled
            /\ ex[s].before.cancel_reason = NoReason) =>
              ex[s].after.cancel_reason = "TIMEOUT"
        /\ (/\ Done(s) /\ ex[s].exc = Cancelled
            /\ ex[s].token.is_cancelled
            /\ ex[s].before.cancel_reason = NoReason) =>
              ex[s].after.cancel_reason = ex[s].token.reason

\* the body of s left with a cancellation after the token of s was cancelled
\* with reason MANUAL while the body was running
ManuallyCancelled(s) ==
    /\ Done(s)
    /\ ex[s].exc \in {Cancelled, ManualCancellation(ex[s].token)}
    /\ ex[s].token.is_cancelled
    /\ ex[s].token.reason = "MANUAL"
    /\ ~ex[s].entered_cancelled

\* C8: when the token of a scope is cancelled with reason MANUAL while the
\* body runs, the scope is cancelled (a checkpoint of the body raises), and
\* after the exit status is CANCELLED, cancel_reason MANUAL and
\* cancel_message the message passed to cancel(), or a non-empty default
\* when none was passed.
C8_Original ==
    \A s \in Scopes :
        /\ (/\ pc[s] = "body"
            /\ tok[sc.token[s]].is_cancelled
            /\ tok[sc.token[s]].reason = "MANUAL") => cs[s].cancel_called
        /\ ManuallyCancelled(s) =>
              /\ ex[s].after.status = "CANCELLED"
              /\ ex[s].after.cancel_reason = "MANUAL"
              /\ IF ex[s].token.message # NoMsg
                 THEN ex[s].after.cancel_message = ex[s].token.message
                 ELSE Truthy(ex[s].after.cancel_message)

\* the exits of s with the host's cancellation-failure
CancelledExit(s) == Done(s) /\ ex[s].exc = Cancelled

\* C9 as stated: at an exit by cancellation cancel_reason is (1) the reason
\* a source has set, (2) else the token's reason, with its message, if the
\* token is cancelled, (3) else TIMEOUT if the region was cancelled and the
\* time is at or past its deadline, (4) else the reason of a source whose
\* triggered flag is set, (5) else MANUAL.
C9_Original ==
    \A s \in Scopes : CancelledExit(s) =>
        LET e == ex[s]
        IN IF e.before.cancel_reason # NoReason
           THEN e.after.cancel_reason = e.before.cancel_reason
           ELSE IF e.token.is_cancelled
           THEN /\ e.after.cancel_reason = e.token.reason
                /\ e.after.cancel_message = e.token.message
           ELSE IF e.region.cancel_called /\ e.due
           THEN e.after.cancel_reason = "TIMEOUT"
           ELSE IF e.probe # NoReason
           THEN e.after.cancel_reason = e.probe
           ELSE e.after.cancel_reason = "MANUAL"

\* C9 amended: as C9, with rule (4) applying only if the region of the scope
\* was itself cancelled: when it was not (the cancellation-failure came from
\* outside the scope), cancel_reason is MANUAL whatever the triggered flags.
C9_Priority ==
    \A s \in Scopes : CancelledExit(s) =>
        LET e == ex[s]
        IN IF e.before.cancel_reason # NoReason
           THEN e.after.cancel_reason = e.before.cancel_reason
           ELSE IF e.token.is_cancelled
           THEN /\ e.after.cancel_reason = e.token.reason
                /\ e.after.cancel_message = e.token.message
           ELSE IF e.region.cancel_called /\ e.due
           THEN e.after.cancel_reason = "TIMEOUT"
           ELSE IF e.region.cancel_called /\ e.probe # NoReason
           THEN e.after.cancel_reason = e.probe
           ELSE e.after.cancel_reason = "MANUAL"

\* C9 witness: a scope left with the cancellation-failure while the time was
\* past its deadline and its token cancelled: the reason is the token's
C9_Witness ==
    \E s \in Scopes :
        /\ CancelledExit(s)
        /\ ex[s].before.cancel_reason = NoReason
        /\ ex[s].token.is_cancelled
        /\ ex[s].region.cancel_called /\ ex[s].due
        /\ ex[s].probe = "TIMEOUT"
        /\ ex[s].after.cancel_reason = "MANUAL"

(***************************************************************************)
(* Claims about shield(), checked under SpecShield.                        *)
(***************************************************************************)
(* AnyioBridge (utils/anyio_bridge.py).  call_soon_threadsafe runs on any  *)
(* thread, so it is modelled in two steps: the read of _started, and what  *)
(* the caller does on the value it read.  start() and _worker() run in the *)
(* event loop: start() is cut where a thread can observe it (at the        *)
(* section under _pending_lock and at the assignment of _started), the     *)
(* worker at its awaits.                                                   *)
(***************************************************************************)
Threads == {"a", "b"}

\* how many callables the threads submit
MaxSubmits == 3

\* anyio.create_memory_object_stream(1000), scaled down
StreamSize == 2

Kinds == {"sync", "async", "raises"}

NoCallable == [id |-> 0, kind |-> "none"]

Idle == [pc |-> "idle", cb |-> NoCallable]

NewBridge ==
    [started |-> FALSE,                       \* _started
     pending |-> <<>>,                        \* _pending_callbacks
     stream |-> <<>>,                         \* the buffer of the stream
     start |-> "new",                         \* where start() is
     worker |-> NoCallable,                   \* the callable _worker is running
     thread |-> [k \in Threads |-> Idle],     \* where each caller is
     n |-> 0,                                 \* callables submitted so far
     accepted |-> <<>>,                       \* history: as appended or sent
     dropped |-> {},                          \* history: ids dropped on WouldBlock
     events |-> <<>>]                         \* history: what the worker did

Full(q) == Len(q) >= StreamSize

\* send_nowait: the stream takes the callable unless its buffer is full
send_nowait(q, cb) == IF Full(q) THEN q ELSE Append(q, cb)

\* the ids that send_nowait, fed with the callables of p in order, drops
RECURSIVE Overflow(_, _)
Overflow(q, p) ==
    IF p = <<>> THEN {}
    ELSE (IF Full(q) THEN {Head(p).id} ELSE {})
             \cup Overflow(send_nowait(q, Head(p)), Tail(p))

\* start(): while self._pending_callbacks: popleft, send_nowait
RECURSIVE Drained(_, _)
Drained(q, p) ==
    IF p = <<>> THEN q ELSE Drained(send_nowait(q, Head(p)), Tail(p))

\* a dequeue from the wrong end: the last callable sent
Newest(q) == q[Len(q)]

\* callback = await self._receive_stream.receive()
Received(q) == Head(q)

Rest(q, cb) == SelectSeq(q, LAMBDA c : c # cb)

\* a worker whose try block lets the exception of a callable through
Unhandled(cb) == cb.kind # "raises"

\* _worker, `except Exception` inside the loop: what a callable does ends there
Handled(cb) == cb.kind \in Kinds

\* call_soon_threadsafe, `if not self._started`: the caller reads the flag
CallRead(k, kind) ==
    /\ bridge.thread[k].pc = "idle"
    /\ bridge.n < MaxSubmits
    /\ bridge' = [bridge EXCEPT
                    !.n = @ + 1,
                    !.thread[k] = [pc |-> IF bridge.started THEN "send" ELSE "append",
                                   cb |-> [id |-> bridge.n + 1, kind |-> kind]]]

\* call_soon_threadsafe, the flag read False: append under _pending_lock
CallAppend(k) ==
    /\ bridge.thread[k].pc = "append"
    /\ bridge' = [bridge EXCEPT
                    !.pending = Append(@, bridge.thread[k].cb),
                    !.accepted = Append(@, [id |-> bridge.thread[k].cb.id,
                                            staged |-> TRUE]),
                    !.thread[k] = Idle]

\* call_soon_threadsafe, the flag read True: send_nowait, dropped on WouldBlock
CallSend(k) ==
    /\ bridge.thread[k].pc = "send"
    /\ LET cb == bridge.thread[k].cb
       IN bridge' = [bridge EXCEPT
                       !.stream = send_nowait(@, cb),
                       !.accepted = IF Full(bridge.stream) THEN @
                                    ELSE Append(@, [id |-> cb.id, staged |-> FALSE]),
                       !.dropped = IF Full(bridge.stream) THEN @ \cup {cb.id} ELSE @,
                       !.thread[k] = Idle]

\* start(), to the end of the section under _pending_lock: the stream is
\* created and the staged callables are moved into it
StartDrain ==
    /\ bridge.start = "new"
    /\ ~bridge.started
    /\ bridge' = [bridge EXCEPT
                    !.stream = Drained(<<>>, bridge.pending),
                    !.dropped = @ \cup Overflow(<<>>, bridge.pending),
                    !.pending = <<>>,
                    !.start = "drained"]

\* start(): self._started = True, then await self._worker()
StartStarted ==
    /\ bridge.start = "drained"
    /\ bridge' = [bridge EXCEPT !.started = TRUE, !.start = "worker"]

\* _worker: receive() returns the next callable and callback() is called
WorkerReceive ==
    /\ bridge.start = "worker"
    /\ bridge.worker = NoCallable
    /\ bridge.stream # <<>>
    /\ LET cb == Received(bridge.stream)
       IN bridge' = [bridge EXCEPT
                       !.stream = Rest(@, cb),
                       !.worker = cb,
                       !.events = Append(@, [e |-> "call", id |-> cb.id])]

\* _worker: the call returned, the awaitable it returned completed, or the
\* exception was caught and logged; then anyio.sleep(0) and the next round
WorkerDone ==
    /\ bridge.worker # NoCallable
    /\ bridge' = [bridge EXCEPT
                    !.worker = NoCallable,
                    !.start = IF Handled(bridge.worker) THEN @ ELSE "ended",
                    !.events = Append(@, [e |-> IF bridge.worker.kind = "raises"
                                                 THEN "raised" ELSE "done",
                                          id |-> bridge.worker.id])]

InitBridge ==
    /\ bridge = NewBridge
    /\ tok = <<>> /\ cbs = <<>> /\ lock = <<>> /\ stack = <<>>
    /\ clock = 0 /\ nops = 0 /\ win = <<>> /\ rets = <<>> /\ regs = <<>>
    /\ sc = <<>> /\ pc = <<>> /\ ctx = <<>> /\ cs = <<>> /\ src = <<>>
    /\ now = 0 /\ ncalls = 0 /\ log = <<>> /\ ex = <<>> /\ sh = <<>>
    /\ registry = <<>> /\ current = <<>> /\ enclosing = FALSE /\ fin = <<>>
    /\ ret = <<>>
    /\ NoUtils

NextBridge ==
    \/ \E k \in Threads, kind \in Kinds : CallRead(k, kind) /\ UNCHANGED bridgeRest
    \/ \E k \in Threads : CallAppend(k) /\ UNCHANGED bridgeRest
    \/ \E k \in Threads : CallSend(k) /\ UNCHANGED bridgeRest
    \/ StartDrain /\ UNCHANGED bridgeRest
    \/ StartStarted /\ UNCHANGED bridgeRest
    \/ WorkerReceive /\ UNCHANGED bridgeRest
    \/ WorkerDone /\ UNCHANGED bridgeRest

SpecBridge == InitBridge /\ [][NextBridge]_vars

(***************************************************************************)
\* the scope was cancelled while its shielded body was executing: the
\* region was not cancelled when the body began, and at its end the token
\* was cancelled, the deadline had passed or a source had fired
CancelledInShield(s) ==
    /\ sh[s].state = "out"
    /\ ~sh[s].before
    /\ sh[s].token \/ sh[s].due \/ sh[s].fired

\* C12: a scope is in its shielded body until that body ends by itself (no
\* exit of the scope happens in between); if the scope was cancelled while
\* the shielded body was executing - its deadline passed, a source of it
\* fired or its token was cancelled - the checkpoint after the shield
\* raises: the code of the scope after the shield does not run, and the
\* scope is left by the cancellation-failure.
C12_Shield ==
    \A s \in Scopes :
        /\ sh[s].state = "in" => (pc[s] = "shield" /\ ex[s] = [NoExit EXCEPT
                                       !.entered_at = ex[s].entered_at,
                                       !.entered_cancelled = ex[s].entered_cancelled])
        /\ CancelledInShield(s) =>
              /\ ~sh[s].resumed
              /\ pc[s] \in {"raising", "done"}
              /\ Done(s) => ex[s].exc = Cancelled

\* C12 witness: the deadline of a scope passed during its shielded body,
\* its token untouched, and the scope was left by the cancellation-failure
\* raised after the shield.
C12_Witness ==
    \E s \in Scopes :
        /\ CancelledInShield(s)
        /\ sh[s].due /\ ~sh[s].token
        /\ Done(s)
        /\ ex[s].exc = Cancelled
        /\ ex[s].after.status = "CANCELLED"

(***************************************************************************)
(* Claims about the exit of a scope, checked under SpecExit.               *)
(***************************************************************************)
\* C13: when __aexit__ of a scope has returned - after a normal end of the
\* body, an exception, the scope's own cancellation or a cancellation
\* delivered by the enclosing region - every source of the scope (those of
\* the components of a combined scope included) has been stopped, a scope
\* made with register_globally is not in the live table, and
\* current_operation() is what it was before enter.
C13_Original ==
    \A s \in Scopes :
        fin[s].exited =>
            /\ fin[s].monitoring = {}
            /\ s \in sc.globally => ~fin[s].live
            /\ fin[s].current = fin[s].before

(***************************************************************************)
(* Claims about the sources after stop_monitoring(), checked under         *)
(* SpecScope.                                                              *)
(***************************************************************************)
\* C14: once __aexit__ has stopped the sources of a scope, no source calls
\* the scope's cancel callback or cancels its region any more, a signal
\* that was queued in the bridge when the source was stopped included: the
\* status, cancel_reason and cancel_message that the exit recorded stay as
\* they are.
C14_Original ==
    \A s \in Scopes :
        Done(s) =>
            /\ ctx[s].status = ex[s].after.status
            /\ ctx[s].cancel_reason = ex[s].after.cancel_reason
            /\ ctx[s].cancel_message = ex[s].after.cancel_message

(***************************************************************************)
(* Claims about the bridge, checked under SpecBridge.                      *)
(***************************************************************************)
Calls == SelectSeq(bridge.events, LAMBDA e : e.e = "call")

\* where in the order of acceptance the callable is
Acceptance(id) == CHOOSE i \in 1..Len(bridge.accepted) : bridge.accepted[i].id = id

\* C15: the worker runs no callable twice, and once the bridge is running no
\* accepted callable is left where the worker never looks: start() returns
\* at once when _started is set, so _pending_callbacks is not read again.
C15_Original ==
    /\ \A i, j \in 1..Len(Calls) : Calls[i].id = Calls[j].id => i = j
    /\ bridge.started => bridge.pending = <<>>

\* C16: the worker calls the callables in the order in which the bridge
\* accepted them, the staged ones before the ones sent to the stream; it
\* calls none before the one before it has returned, raised or completed;
\* and it is still running after a callable raised.
C16_WorkerOrder ==
    /\ \A i, j \in 1..Len(Calls) :
          i < j =>
              /\ \E a \in 1..Len(bridge.accepted) : bridge.accepted[a].id = Calls[i].id
              /\ \E a \in 1..Len(bridge.accepted) : bridge.accepted[a].id = Calls[j].id
              /\ Acceptance(Calls[i].id) < Acceptance(Calls[j].id)
              /\ ~(/\ bridge.accepted[Acceptance(Calls[j].id)].staged
                   /\ ~bridge.accepted[Acceptance(Calls[i].id)].staged)
    /\ \A i \in 1..Len(bridge.events) :
          bridge.events[i].e = "call" =>
              IF i = Len(bridge.events)
              THEN bridge.worker.id = bridge.events[i].id
              ELSE /\ bridge.events[i + 1].e \in {"done", "raised"}
                   /\ bridge.events[i + 1].id = bridge.events[i].id
    /\ bridge.started => bridge.start = "worker"

\* a staged raising callable, then an asynchronous one sent after start():
\* both ran, in that order, the second after the first had raised
C16_Witness ==
    \E i, j \in 1..Len(bridge.events) :
        /\ i < j
        /\ bridge.events[i].e = "raised"
        /\ bridge.accepted[Acceptance(bridge.events[i].id)].staged
        /\ bridge.events[j].e = "done"
        /\ ~bridge.accepted[Acceptance(bridge.events[j].id)].staged

(***************************************************************************)
(* Claims about the registry's tables, checked under SpecRegistry.         *)
(***************************************************************************)
HistoryIds == {registry.history[i].id : i \in 1..Len(registry.history)}

\* C17: no operation id is at once in the live table (_operations) and in
\* the history, whatever scopes enter and exit and whatever register,
\* unregister and cleanup_completed calls are made.
C17_Original == Keys(registry.operations) \cap HistoryIds = {}

\* the last n elements of q, or all of q when it has fewer
Latest(q, n) == IF Len(q) > n THEN SubSeq(q, Len(q) - n + 1, Len(q)) ELSE q

\* C18: the history never holds more than its cap of entries, and it is the
\* most recent snapshots, at most cap of them, in the order in which they
\* were added: an entry added to a full history evicts the oldest.
C18_HistoryCap ==
    /\ Len(registry.history) <= HistoryLimit
    /\ registry.history = Latest(registry.added, HistoryLimit)

\* more snapshots were added than the cap, so the oldest was evicted
C18_Witness ==
    /\ Len(registry.added) > HistoryLimit
    /\ Len(registry.history) = HistoryLimit
    /\ registry.history[1] = registry.added[Len(registry.added) - HistoryLimit + 1]

\* the entries of the live table that a step takes out of it
Removed == SelectSeq(registry.operations, LAMBDA e : e \notin Range(registry.operations'))

\* C20: a call of cleanup_completed(older_than, keep_failed) takes out of the
\* live table only scopes in a terminal status, no FAILED scope when
\* keep_failed is set and no scope that ended less than older_than ago; it
\* appends one snapshot of each scope it took out to the history, returns
\* their number, and leaves the other entries and every context as they were.
C20_Cleanup ==
    [][(ret.n = 0 /\ ret'.op = "cleanup_completed") =>
          /\ \A i \in 1..Len(Removed) :
                LET c == ctx[Removed[i].op]
                IN /\ c.status \in Terminal
                   /\ c.status \notin {"PENDING", "RUNNING", "SHIELDED"}
                   /\ ~(ret'.keep_failed /\ c.status = "FAILED")
                   /\ ~(ret'.older_than > 0 /\ now - c.end_time < ret'.older_than)
          /\ registry'.added = registry.added \o
                [i \in 1..Len(Removed) |-> [id |-> Removed[i].id, ctx |-> ctx[Removed[i].op]]]
          /\ ret'.returned = Len(Removed)
          /\ registry'.operations =
                SelectSeq(registry.operations, LAMBDA e : e \notin Range(Removed))
          /\ ctx' = ctx /\ pc' = pc /\ cs' = cs]_vars

\* a call that took an ended scope out of the table and left a running one
C20_Witness ==
    /\ ret.op = "cleanup_completed"
    /\ ret.returned = 1
    /\ Len(registry.added) > 0
    /\ \E i \in 1..Len(registry.operations) :
          ctx[registry.operations[i].op].status = "RUNNING"

(***************************************************************************)
(* Claims about cancel_all, checked under SpecBulk.                        *)
(***************************************************************************)
\* the scopes that were live with the status asked for when cancel_all was
\* called
Matched ==
    {s \in ret.live : ret.status = "NONE" \/ ret.was[s] = ret.status}

RECURSIVE Ancestors(_)
Ancestors(s) ==
    IF sc.parent[s] = 0 THEN {} ELSE {sc.parent[s]} \cup Ancestors(sc.parent[s])

\* the matched scopes that the call reached before anything else had
\* cancelled them: not through a matched ancestor, and with no source fired
Direct ==
    {s \in Matched : /\ s \in ret.hit
                     /\ Ancestors(s) \cap Matched = {}
                     /\ ret.was[s] = "RUNNING"}

SnapshotsOf(s) ==
    {i \in 1..Len(registry.added) : registry.added[i].id = sc.id[s]}

\* C21: the exit of a scope made with register_globally=True adds exactly
\* one entry to the history: a snapshot with the scope's id that carries the
\* terminal status, the cancel reason and the error that the exit recorded,
\* whatever happens to the scope's context afterwards.
C21_Original ==
    \A s \in sc.globally :
        Done(s) =>
            /\ Cardinality(SnapshotsOf(s)) = 1
            /\ \A i \in SnapshotsOf(s) :
                  /\ registry.added[i].ctx.status \in Terminal
                  /\ registry.added[i].ctx = ex[s].after

(***************************************************************************)
(* SignalSource (sources/signal.py): the class-level tables _handlers and  *)
(* _original_handlers, the handler that signal.signal has installed for    *)
(* each signal, and the sources.  A signal handler runs in the main thread *)
(* between two instructions of whatever runs there, so the arrival of a    *)
(* signal is one step that can fall between any two steps of start().      *)
(***************************************************************************)
Signals == {"SIGINT", "SIGTERM"}

SigSources == {"g1", "g2"}

\* SignalSource(SIGINT) and SignalSource(): the default set is both signals
SignalsOf(x) == IF x = "g1" THEN {"SIGINT"} ELSE {"SIGINT", "SIGTERM"}

\* the handler in place before the library touches the signal
Previous(g) == IF g = "SIGINT" THEN "default_int_handler" ELSE "SIG_DFL"

Library == "SignalSource._signal_handler"

Absent == "absent"

\* start_monitoring calls made on one source
MaxStarts == 2

\* signals that arrive
MaxArrivals == 2

\* f"Received signal {signal_name} ({signum})"
SignalMsg(g) == [k |-> "signal", v |-> g]

\* one source: scope (bound or None), the region and the context of the
\* scope it is bound to, triggered, _signal_received, _cleanup_done;
\* history: whether it is between a start and a stop, the start calls made,
\* the _on_signal calls it got, and whether a signal of its set arrived
\* while it was started
NewSignalSource ==
    [scope |-> FALSE, region |-> NoScope, ctx |-> NewContext,
     triggered |-> FALSE, received |-> Absent, cleanup_done |-> FALSE,
     active |-> FALSE, starts |-> 0, notified |-> 0, due |-> FALSE]

NewSignals ==
    [keys |-> {},                                   \* the keys of _handlers
     handlers |-> [g \in Signals |-> {}],           \* _handlers
     original |-> [g \in Signals |-> Absent],       \* _original_handlers
     os |-> [g \in Signals |-> Previous(g)],        \* what signal.signal installed
     source |-> [x \in SigSources |-> NewSignalSource],
     calls |-> <<>>,                                \* the callables handed to the bridge
     arrivals |-> 0]

\* _register_handlers of source x
RegisterHandlers(t, x) ==
    LET new == SignalsOf(x) \ t.keys
    IN [t EXCEPT
          !.keys = @ \cup SignalsOf(x),
          !.handlers = [g \in Signals |->
                           IF g \in SignalsOf(x)
                           THEN (IF g \in t.keys THEN @[g] ELSE {}) \cup {x}
                           ELSE @[g]],
          !.original = [g \in Signals |-> IF g \in new THEN t.os[g] ELSE @[g]],
          !.os = [g \in Signals |-> IF g \in new THEN Library ELSE @[g]]]

\* _unregister_handlers of source x
UnregisterHandlers(t, x) ==
    LET mine == SignalsOf(x) \cap t.keys
        last == {g \in mine : t.handlers[g] \ {x} = {}}
    IN [t EXCEPT
          !.keys = @ \ last,
          !.handlers = [g \in Signals |-> IF g \in mine THEN @[g] \ {x} ELSE @[g]],
          !.os = [g \in Signals |->
                     IF g \in last /\ t.original[g] # Absent THEN t.original[g] ELSE @[g]],
          !.original = [g \in Signals |-> IF g \in last THEN Absent ELSE @[g]]]

\* await source.start_monitoring(scope), called by the scope that enters
SignalStart(x) ==
    /\ sig.source[x].starts < MaxStarts
    /\ ~sig.source[x].active
    /\ sig' = [RegisterHandlers(sig, x) EXCEPT
                  !.source[x].scope = TRUE,
                  !.source[x].region = NewScope,
                  !.source[x].ctx = [NewContext EXCEPT !.status = "RUNNING"],
                  !.source[x].active = TRUE,
                  !.source[x].starts = @ + 1,
                  !.source[x].due = FALSE]
    /\ UNCHANGED bridge

\* await source.stop_monitoring(), called by the scope that exits
SignalStop(x) ==
    /\ sig.source[x].active
    /\ sig' = [(IF sig.source[x].cleanup_done THEN sig ELSE UnregisterHandlers(sig, x))
                  EXCEPT !.source[x].cleanup_done = TRUE,
                         !.source[x].active = FALSE]
    /\ UNCHANGED bridge

\* call_soon_threadsafe(callback) as one step: the handler is not interrupted
call_soon_threadsafe(b, cb) ==
    IF ~b.started
    THEN [b EXCEPT !.n = @ + 1,
                   !.pending = Append(@, cb),
                   !.accepted = Append(@, [id |-> cb.id, staged |-> TRUE])]
    ELSE [b EXCEPT !.n = @ + 1,
                   !.stream = send_nowait(@, cb),
                   !.accepted = IF Full(b.stream) THEN @
                                ELSE Append(@, [id |-> cb.id, staged |-> FALSE]),
                   !.dropped = IF Full(b.stream) THEN @ \cup {cb.id} ELSE @]

\* the sources that _on_signal(g) makes hand a callable to the bridge
Firing(t, g, xs) ==
    {x \in xs : ~t.source[x].triggered /\ g \in SignalsOf(x) /\ t.source[x].scope}

RECURSIVE Scheduled(_, _, _)
\* _on_signal: call_soon_threadsafe(schedule_cancellation), source by source
Scheduled(w, g, xs) ==
    IF xs = {} THEN w
    ELSE LET x == CHOOSE x \in xs : TRUE
             cb == [id |-> w.bridge.n + 1, kind |-> "async"]
         IN Scheduled([bridge |-> call_soon_threadsafe(w.bridge, cb),
                       calls |-> Append(w.calls, [source |-> x, signum |-> g])],
                      g, xs \ {x})

\* _signal_handler(signum, frame): every source in _handlers[signum] gets
\* _on_signal(signum)
SignalHandler(t, g) ==
    LET xs == IF g \in t.keys THEN t.handlers[g] ELSE {}
    IN [t EXCEPT
          !.source = [x \in SigSources |->
                         IF x \in xs
                         THEN [@[x] EXCEPT
                                 !.notified = @ + 1,
                                 !.triggered = @ \/ g \in SignalsOf(x),
                                 !.received = IF ~t.source[x].triggered /\ g \in SignalsOf(x)
                                              THEN g ELSE @]
                         ELSE @[x]]]

\* the operating system delivers signal g to the process
Arrive(g) ==
    /\ sig.arrivals < MaxArrivals
    /\ LET t == [sig EXCEPT
                    !.arrivals = @ + 1,
                    !.source = [x \in SigSources |->
                                   [@[x] EXCEPT !.due = @ \/ (sig.source[x].active
                                                              /\ g \in SignalsOf(x))]]]
           xs == IF g \in sig.keys THEN sig.handlers[g] ELSE {}
           w == Scheduled([bridge |-> bridge, calls |-> sig.calls], g, Firing(sig, g, xs))
       IN IF sig.os[g] = Library
          THEN /\ sig' = [SignalHandler(t, g) EXCEPT !.calls = w.calls]
               /\ bridge' = w.bridge
          ELSE /\ sig' = t
               /\ UNCHANGED bridge

\* schedule_cancellation, run by the bridge worker: trigger_cancellation(message)
\* of the source, with Cancellable._on_source_cancelled as its callback
Triggered(t, call) ==
    LET x == call.source
    IN IF t.source[x].scope /\ ~t.source[x].region.cancel_called
       THEN [t EXCEPT
               !.source[x].ctx = [@ EXCEPT !.status = "CANCELLED",
                                           !.cancel_reason = "SIGNAL",
                                           !.cancel_message = SignalMsg(call.signum)],
               !.source[x].region = ScopeCancelled(@)]
       ELSE t

\* the bridge worker runs the callable it received to its end
SignalWorkerDone ==
    /\ WorkerDone
    /\ sig' = Triggered(sig, sig.calls[bridge.worker.id])

signalRest == <<coreVars, cond, comp, strm, chk, val, rl, wr>>

InitSignal ==
    /\ sig = NewSignals
    /\ bridge = NewBridge
    /\ NoCore /\ NoCond /\ NoComp /\ NoStrm /\ NoChk /\ NoVal /\ NoRl /\ NoWr

NextSignal ==
    \/ \E x \in SigSources : SignalStart(x) /\ UNCHANGED signalRest
    \/ \E x \in SigSources : SignalStop(x) /\ UNCHANGED signalRest
    \/ \E g \in Signals : Arrive(g) /\ UNCHANGED signalRest
    \/ StartDrain /\ UNCHANGED <<sig, signalRest>>
    \/ StartStarted /\ UNCHANGED <<sig, signalRest>>
    \/ WorkerReceive /\ UNCHANGED <<sig, signalRest>>
    \/ SignalWorkerDone /\ UNCHANGED signalRest

SpecSignal == InitSignal /\ [][NextSignal]_vars

\* the application starts the bridge, and the event loop runs its worker
FairSignal ==
    /\ SpecSignal
    /\ WF_vars(StartDrain /\ UNCHANGED <<sig, signalRest>>)
    /\ WF_vars(StartStarted /\ UNCHANGED <<sig, signalRest>>)
    /\ WF_vars(WorkerReceive /\ UNCHANGED <<sig, signalRest>>)
    /\ WF_vars(SignalWorkerDone /\ UNCHANGED signalRest)

(***************************************************************************)
(* Claims about the signal sources, checked under SpecSignal.              *)
(***************************************************************************)
\* the sources for signal g that were started and not stopped since
Started(g) == {x \in SigSources : sig.source[x].active /\ g \in SignalsOf(x)}

\* C23: for every signal, the library's handler is installed while at least
\* one started source is registered for it, and when no source is started
\* (none yet, or all stopped, restarted sources included) the handler that
\* was in place before the first registration is installed again.
C23_Original ==
    \A g \in Signals :
        /\ Started(g) # {} => sig.os[g] = Library
        /\ Started(g) = {} => sig.os[g] = Previous(g)

\* the scope that source x is bound to has been cancelled by the signal
CancelledBySignal(x) ==
    /\ sig.source[x].region.cancel_called
    /\ sig.source[x].ctx.status = "CANCELLED"
    /\ sig.source[x].ctx.cancel_reason = "SIGNAL"
    /\ sig.source[x].ctx.cancel_message = SignalMsg(sig.source[x].received)

\* C22: when a signal of a source's set arrives while the scope of the
\* source is running, the scope is eventually cancelled with status
\* CANCELLED, reason SIGNAL and a message that names the signal, unless its
\* body has ended first; and an arrival notifies a source at most once.
C22_Original ==
    /\ [](\A x \in SigSources : sig.source[x].notified <= sig.arrivals)
    /\ \A x \in SigSources :
          sig.source[x].due ~> (CancelledBySignal(x) \/ ~sig.source[x].active)

(***************************************************************************)
(* ConditionSource (sources/condition.py): one source, its monitor task    *)
(* and the scope it is bound to.  The predicate is the environment: each   *)
(* poll returns false, returns true or raises.                             *)
(***************************************************************************)
\* polls of the predicate
MaxPolls == 3

\* check_interval, in ticks of the clock
CheckInterval == 1

PollResults == {"false", "true", "raises"}

\* f"Condition '{self.condition_name}' met after {check_count} checks"
ConditionMsg(n) == [k |-> "condition", v |-> n]

\* scope (bound or None), the region and the context of the scope, triggered,
\* the monitor task (where it is, check_count, when its sleep ends), the
\* time; history: the polls (when, what the predicate did), and whether
\* something else cancelled the region
NewCondition ==
    [scope |-> FALSE, region |-> NoScope, ctx |-> NewContext, triggered |-> FALSE,
     task |-> "none", check_count |-> 0, wake |-> 0, clock |-> 0,
     polls |-> <<>>, other |-> FALSE]

\* a monitor that an exception of the predicate ends
Crashed(c) == [c EXCEPT !.task = "ended"]

\* _monitor_condition, `except Exception`: logged, then the sleep
Continued(c) == [c EXCEPT !.task = "sleeping", !.wake = c.clock + CheckInterval]

\* trigger_cancellation(message) with Cancellable._on_source_cancelled
ConditionTriggered(c, message) ==
    IF c.scope /\ ~c.region.cancel_called
    THEN [c EXCEPT !.ctx = [@ EXCEPT !.status = "CANCELLED",
                                     !.cancel_reason = "CONDITION",
                                     !.cancel_message = message],
                   !.region = ScopeCancelled(@)]
    ELSE c

\* await source.start_monitoring(scope): the monitor task is started
ConditionStart ==
    /\ cond.task = "none"
    /\ cond' = [cond EXCEPT !.scope = TRUE, !.region = NewScope,
                            !.ctx = [NewContext EXCEPT !.status = "RUNNING"],
                            !.task = "polling"]

\* one round of the loop of _monitor_condition: the predicate is called
Poll(result) ==
    /\ cond.task = "polling"
    /\ ~cond.triggered
    /\ cond.check_count < MaxPolls
    /\ LET n == cond.check_count + 1
           c == [cond EXCEPT !.check_count = n,
                             !.polls = Append(@, [at |-> cond.clock, result |-> result])]
       IN cond' = IF result = "true"
                  THEN ConditionTriggered([c EXCEPT !.triggered = TRUE, !.task = "ended"],
                                          ConditionMsg(n))
                  ELSE IF result = "raises" THEN Continued(c)
                  ELSE [c EXCEPT !.task = "sleeping", !.wake = c.clock + CheckInterval]

\* await anyio.sleep(self.check_interval) returns
ConditionWake ==
    /\ cond.task = "sleeping"
    /\ cond.clock >= cond.wake
    /\ cond' = [cond EXCEPT !.task = "polling"]

\* time passes
ConditionTick ==
    /\ cond.clock < MaxTime
    /\ cond' = [cond EXCEPT !.clock = @ + 1]

\* await source.stop_monitoring(): the task group of the monitor is cancelled
ConditionStop ==
    /\ cond.task \in {"polling", "sleeping", "ended"}
    /\ cond' = [cond EXCEPT !.task = "stopped"]

\* something else cancels the region of the scope (its token, a timeout)
ConditionOther ==
    /\ cond.scope
    /\ cond.task \in {"polling", "sleeping"}
    /\ ~cond.region.cancel_called
    /\ cond' = [cond EXCEPT !.region = ScopeCancelled(@), !.other = TRUE]

conditionRest == <<coreVars, bridge, sig, comp, strm, chk, val, rl, wr>>

InitCondition ==
    /\ cond = NewCondition
    /\ bridge = <<>>
    /\ NoCore /\ NoSig /\ NoComp /\ NoStrm /\ NoChk /\ NoVal /\ NoRl /\ NoWr

NextCondition ==
    \/ ConditionStart /\ UNCHANGED conditionRest
    \/ \E result \in PollResults : Poll(result) /\ UNCHANGED conditionRest
    \/ ConditionWake /\ UNCHANGED conditionRest
    \/ ConditionTick /\ UNCHANGED conditionRest
    \/ ConditionStop /\ UNCHANGED conditionRest
    \/ ConditionOther /\ UNCHANGED conditionRest

SpecCondition == InitCondition /\ [][NextCondition]_vars

(***************************************************************************)
(* Claims about the predicate source, checked under SpecCondition.         *)
(***************************************************************************)
\* the polls that returned true
TruePolls == {i \in 1..Len(cond.polls) : cond.polls[i].result = "true"}

\* what holds of the polls whatever else happens: they are a check interval
\* apart, a poll that raised left the monitor polling, and a poll that
\* returned true is the last one
Polling ==
    /\ \A i \in 1..Len(cond.polls) - 1 :
          cond.polls[i + 1].at >= cond.polls[i].at + CheckInterval
    /\ (cond.polls # <<>> /\ cond.polls[Len(cond.polls)].result = "raises") =>
          cond.task \in {"sleeping", "polling", "stopped"}
    /\ \A i \in TruePolls : i = Len(cond.polls)
    /\ cond.triggered <=> TruePolls # {}

\* C24 as stated: the polls are a check interval apart, a poll that raises is
\* skipped, and at the first poll that returns true, poll n, the scope is
\* cancelled with reason CONDITION and a message naming n, after which the
\* predicate is not polled again.
C24_Original ==
    /\ Polling
    /\ \A n \in TruePolls :
          /\ cond.region.cancel_called
          /\ cond.ctx.status = "CANCELLED"
          /\ cond.ctx.cancel_reason = "CONDITION"
          /\ cond.ctx.cancel_message = ConditionMsg(n)

\* C24, amended: as stated, but the first true poll sets the reason and the
\* message only if the region of the scope had not been cancelled by then;
\* if it had, the scope's context is left as it was.
C24_Polling ==
    /\ Polling
    /\ \A n \in TruePolls :
          /\ cond.region.cancel_called
          /\ ~cond.other =>
                /\ cond.ctx.status = "CANCELLED"
                /\ cond.ctx.cancel_reason = "CONDITION"
                /\ cond.ctx.cancel_message = ConditionMsg(n)
          /\ cond.other =>
                /\ cond.ctx.status = "RUNNING"
                /\ cond.ctx.cancel_reason = NoReason

\* a poll that raised, a poll that returned false, and the third true: the
\* scope was cancelled with the message of three checks
C24_Witness ==
    /\ Len(cond.polls) = 3
    /\ cond.polls[1].result = "raises"
    /\ cond.polls[2].result = "false"
    /\ cond.polls[3].result = "true"
    /\ cond.ctx.cancel_reason = "CONDITION"
    /\ cond.ctx.cancel_message = ConditionMsg(3)

(***************************************************************************)
(* CompositeSource / AnyOfSource and AllOfSource (sources/composite.py).   *)
(* A composite starts each child on a CancelScope of its own that nothing  *)
(* enters, after replacing the child's trigger_cancellation by a wrapper.  *)
(* A timeout child only arms the deadline of that scope and later sets its *)
(* triggered flag (sources/timeout.py); a predicate child and a signal     *)
(* child call trigger_cancellation, which is the wrapper.                  *)
(***************************************************************************)
\* the lists of children a composite is made with
ChildLists == {<<"timeout", "condition">>, <<"signal", "condition">>,
               <<"timeout", "signal">>}

Modes == {"ANY", "ALL"}

\* the timeout of a timeout child, in ticks of the clock
ChildTimeout == 1

\* how often trigger_cancellation of one child is called
MaxFirings == 2

\* CancellationSource.reason of a child
KindReason(kind) ==
    IF kind = "timeout" THEN "TIMEOUT" ELSE IF kind = "signal" THEN "SIGNAL" ELSE "CONDITION"

\* f"Composite source triggered by {source.name}: {message}"
CompositeMsg(i) == [k |-> "composite", v |-> i]

\* f"All {len(self.sources)} sources have triggered"
AllMsg(n) == [k |-> "all", v |-> n]

\* a child: the scope it was started on, its triggered flag, whether its
\* callable waits in the bridge; history: the calls of its
\* trigger_cancellation
NewChild == [scope |-> NoScope, started |-> FALSE, triggered |-> FALSE,
             queued |-> FALSE, firings |-> 0]

NewComposite(mode, kinds) ==
    [mode |-> mode, kinds |-> kinds,
     child |-> [i \in 1..Len(kinds) |-> NewChild],
     scope |-> FALSE,                 \* self.scope
     region |-> NoScope,              \* the region of the bound scope
     ctx |-> NewContext,              \* the context of the bound scope
     reason |-> "MANUAL",             \* self.reason
     triggered_source |-> 0,          \* CompositeSource.triggered_source
     triggered_sources |-> {},        \* AllOfSource.triggered_sources
     clock |-> 0, started_at |-> 0, stopped |-> FALSE,
     first |-> 0]                     \* history: the child that fired first

\* CancellationSource.trigger_cancellation(message) of the composite, with
\* Cancellable._on_source_cancelled as its callback
CompositeTriggered(c, message) ==
    IF c.scope /\ ~c.region.cancel_called
    THEN [c EXCEPT !.ctx = [@ EXCEPT !.status = "CANCELLED",
                                     !.cancel_reason = c.reason,
                                     !.cancel_message = message],
                   !.region = ScopeCancelled(@)]
    ELSE c

\* original_trigger(message) of child i: no callback is set, its scope is
\* cancelled
ChildTriggered(c, i) ==
    IF c.child[i].scope.made /\ ~c.child[i].scope.cancel_called
    THEN [c EXCEPT !.child[i].scope = ScopeCancelled(@)]
    ELSE c

\* the calls of the wrappers of the first n children
RECURSIVE Firings(_, _)
Firings(c, n) == IF n = 0 THEN 0 ELSE c.child[n].firings + Firings(c, n - 1)

\* an AllOfSource that counts the calls of the wrappers
Counted(c) == Firings(c, Len(c.kinds)) >= Len(c.kinds)

\* AllOfSource: len(self.triggered_sources) == len(self.sources)
Complete(c) == Cardinality(c.triggered_sources) = Len(c.kinds)

\* wrapped_trigger of CompositeSource._monitor_source for child i
AnyWrapped(c, i) ==
    LET c1 == ChildTriggered([c EXCEPT !.triggered_source = i,
                                       !.reason = KindReason(c.kinds[i])], i)
    IN IF c1.scope /\ ~c1.region.cancel_called
       THEN CompositeTriggered(c1, CompositeMsg(i))
       ELSE c1

\* wrapped_trigger of AllOfSource._monitor_source for child i
AllWrapped(c, i) ==
    LET c1 == [c EXCEPT !.triggered_sources = @ \cup {i}]
        c2 == IF Complete(c1) THEN CompositeTriggered(c1, AllMsg(Len(c.kinds))) ELSE c1
    IN ChildTriggered(c2, i)

\* the condition of child i is met
Noted(c, i) == IF c.first = 0 THEN [c EXCEPT !.first = i] ELSE c

\* child.trigger_cancellation(message), which is the wrapper
Wrapped(c, i) ==
    LET c1 == [c EXCEPT !.child[i].firings = @ + 1]
    IN IF c.mode = "ANY" THEN AnyWrapped(c1, i) ELSE AllWrapped(c1, i)

\* await composite.start_monitoring(scope): every _monitor_source task
\* starts its child on anyio.CancelScope()
CompositeStart ==
    /\ ~comp.scope
    /\ comp' = [comp EXCEPT
                  !.scope = TRUE, !.region = NewScope,
                  !.ctx = [NewContext EXCEPT !.status = "RUNNING"],
                  !.started_at = comp.clock,
                  !.child = [i \in 1..Len(comp.kinds) |->
                                [NewChild EXCEPT
                                   !.started = TRUE,
                                   !.scope = IF comp.kinds[i] = "timeout"
                                             THEN [NewScope EXCEPT
                                                     !.deadline = comp.clock + ChildTimeout]
                                             ELSE NewScope]]]

Running(i) ==
    /\ i \in 1..Len(comp.kinds)
    /\ comp.child[i].started
    /\ ~comp.stopped

\* TimeoutSource.start_monitoring, monitor(): the sleep is over
ChildTimedOut(i) ==
    /\ Running(i)
    /\ comp.kinds[i] = "timeout"
    /\ ~comp.child[i].triggered
    /\ comp.clock >= comp.started_at + ChildTimeout
    /\ comp' = Noted([comp EXCEPT !.child[i].triggered = TRUE], i)

\* ConditionSource._monitor_condition: the predicate returns true
ChildConditionMet(i) ==
    /\ Running(i)
    /\ comp.kinds[i] = "condition"
    /\ ~comp.child[i].triggered
    /\ comp' = Wrapped(Noted([comp EXCEPT !.child[i].triggered = TRUE], i), i)

\* SignalSource._on_signal: the signal arrives
ChildSignal(i) ==
    /\ Running(i)
    /\ comp.kinds[i] = "signal"
    /\ ~comp.child[i].triggered
    /\ comp' = [comp EXCEPT !.child[i].triggered = TRUE, !.child[i].queued = TRUE]

\* the bridge runs schedule_cancellation of a signal child
ChildScheduled(i) ==
    /\ i \in 1..Len(comp.kinds)
    /\ comp.child[i].queued
    /\ comp' = Wrapped(Noted([comp EXCEPT !.child[i].queued = FALSE], i), i)

\* trigger_cancellation of a child that has fired is called once more
ChildAgain(i) ==
    /\ Running(i)
    /\ comp.child[i].firings \in 1..(MaxFirings - 1)
    /\ comp' = Wrapped(comp, i)

CompositeTick ==
    /\ comp.clock < MaxTime
    /\ comp' = [comp EXCEPT !.clock = @ + 1]

\* await composite.stop_monitoring()
CompositeStop ==
    /\ comp.scope
    /\ ~comp.stopped
    /\ comp' = [comp EXCEPT !.stopped = TRUE]

compositeRest == <<coreVars, bridge, sig, cond, strm, chk, val, rl, wr>>

InitComposite ==
    /\ comp \in {NewComposite(mode, kinds) : mode \in Modes, kinds \in ChildLists}
    /\ bridge = <<>>
    /\ NoCore /\ NoSig /\ NoCond /\ NoStrm /\ NoChk /\ NoVal /\ NoRl /\ NoWr

Children2 == {1, 2}

NextComposite ==
    \/ CompositeStart /\ UNCHANGED compositeRest
    \/ \E i \in Children2 : ChildTimedOut(i) /\ UNCHANGED compositeRest
    \/ \E i \in Children2 : ChildConditionMet(i) /\ UNCHANGED compositeRest
    \/ \E i \in Children2 : ChildSignal(i) /\ UNCHANGED compositeRest
    \/ \E i \in Children2 : ChildScheduled(i) /\ UNCHANGED compositeRest
    \/ \E i \in Children2 : ChildAgain(i) /\ UNCHANGED compositeRest
    \/ CompositeTick /\ UNCHANGED compositeRest
    \/ CompositeStop /\ UNCHANGED compositeRest

SpecComposite == InitComposite /\ [][NextComposite]_vars

\* the monitor tasks, the bridge worker and the clock run
FairComposite ==
    /\ SpecComposite
    /\ WF_vars(\E i \in Children2 : ChildTimedOut(i) /\ UNCHANGED compositeRest)
    /\ WF_vars(\E i \in Children2 : ChildScheduled(i) /\ UNCHANGED compositeRest)
    /\ WF_vars(CompositeTick /\ UNCHANGED compositeRest)

(***************************************************************************)
(* Claims about composite sources, checked under SpecComposite and         *)
(* FairComposite.                                                          *)
(***************************************************************************)
\* child i has fired: its timeout has elapsed, its predicate has returned
\* true, or its signal has arrived and the bridge has run its callable
ChildFired(i) ==
    /\ i \in 1..Len(comp.kinds)
    /\ comp.child[i].triggered
    /\ ~comp.child[i].queued

\* C25: once a child of an ANY composite has fired, whatever its kind, the
\* bound scope is cancelled and the cancellation carries the reason of the
\* child that fired first.
C25_Original ==
    comp.mode = "ANY" =>
        \A i \in 1..Len(comp.kinds) :
            ChildFired(i) =>
                /\ comp.region.cancel_called
                /\ comp.ctx.status = "CANCELLED"
                /\ comp.ctx.cancel_reason = KindReason(comp.kinds[comp.first])

\* C26: the bound scope of an ALL composite is cancelled only when the
\* wrapper of every child has been called, in whatever order and however
\* often each was called.
C26_AllOf ==
    comp.mode = "ALL" =>
        /\ comp.region.cancel_called =>
              \A i \in 1..Len(comp.kinds) : comp.child[i].firings >= 1
        /\ comp.ctx.status = "CANCELLED" => comp.region.cancel_called
        /\ (\E i \in 1..Len(comp.kinds) : comp.child[i].firings = 0) =>
              /\ ~comp.region.cancel_called
              /\ comp.ctx.status = "RUNNING" \/ ~comp.scope

\* an ALL composite is cancelled after its second child fired first and one
\* of its children fired twice
C26_Witness ==
    /\ comp.mode = "ALL"
    /\ comp.region.cancel_called
    /\ comp.ctx.cancel_message = AllMsg(2)
    /\ comp.first = 2
    /\ \E i \in 1..Len(comp.kinds) : comp.child[i].firings = 2

\* an ALL composite over a timeout and a predicate
TimeoutAndPredicate ==
    /\ comp.mode = "ALL"
    /\ comp.kinds = <<"timeout", "condition">>

\* C27: once the timeout has elapsed and the predicate has returned true,
\* in whichever order, the scope of an ALL composite over the two is
\* eventually cancelled (unless the composite is stopped first).
C27_Original ==
    (TimeoutAndPredicate /\ ChildFired(1) /\ ChildFired(2) /\ ~comp.stopped)
        ~> (comp.region.cancel_called \/ comp.stopped)

(***************************************************************************)
(* The stream wrappers: Cancellable.stream (core/cancellable.py) and       *)
(* CancellableAsyncIterator (utils/streams.py).  The source yields the     *)
(* items 1..n and then ends or raises; the consumer takes the items one by *)
(* one.  The buffer keeps BufferLimit items where the code keeps 1000.     *)
(***************************************************************************)
MaxItems == 3

BufferLimit == 2

Wrappers == {"stream", "iterator"}

\* context.partial_result: completed is "true", "false" or "absent" (the
\* key is not in the dict); buffer is None when buffered is FALSE
NoPartial == [written |-> FALSE, count |-> 0, buffered |-> FALSE,
              buffer |-> <<>>, completed |-> "absent"]

Partial(count, buffered, buffer, completed) ==
    [written |-> TRUE, count |-> count, buffered |-> buffered,
     buffer |-> IF buffered THEN buffer ELSE <<>>, completed |-> completed]

\* buffer = buffer[-1000:]
LastOf(b, n) == IF Len(b) > n THEN SubSeq(b, Len(b) - n + 1, Len(b)) ELSE b

\* buffer.append(item) and the limit of the buffer
Buffered(b, item) == LastOf(Append(b, item), BufferLimit)

NewStream(wrapper, n, fails, buffer_partial) ==
    [wrapper |-> wrapper,
     n |-> n, fails |-> fails,        \* the source: n items, then the end or an error
     buffer_partial |-> buffer_partial,
     i |-> 0,                         \* items taken from the source
     count |-> 0, buffer |-> <<>>,
     cancelled |-> FALSE,             \* the token of the scope is cancelled
     pc |-> "next",
     outcome |-> "none",
     partial_result |-> NoPartial,
     yielded |-> <<>>]                \* history: the items the consumer received

\* the iteration ends with the given outcome and the given partial_result
Ended28(c, outcome, partial) ==
    [c EXCEPT !.pc = "done", !.outcome = outcome, !.partial_result = partial]

\* Cancellable.stream, async for item in async_iter: the source yields its
\* next item, ends (else branch) or raises (except Exception)
StreamNext ==
    /\ strm.wrapper = "stream"
    /\ strm.pc = "next"
    /\ strm' =
         IF strm.i < strm.n
         THEN [strm EXCEPT !.i = @ + 1, !.pc = "check"]
         ELSE IF strm.fails
         THEN Ended28(strm, "error",
                      Partial(strm.count, strm.buffer_partial, strm.buffer, "false"))
         ELSE Ended28(strm, "completed",
                      IF strm.buffer_partial \/ strm.count > 0
                      THEN Partial(strm.count, strm.buffer_partial, strm.buffer, "true")
                      ELSE strm.partial_result)

\* Cancellable.stream, except anyio.get_cancelled_exc_class(): the dict has
\* no key "completed"
StreamCancelled(c) ==
    Ended28(c, "cancelled", Partial(c.count, c.buffer_partial, c.buffer, "absent"))

\* the scope is cancelled while the wrapper awaits the source
StreamAwaitCancelled ==
    /\ strm.wrapper = "stream"
    /\ strm.pc = "next"
    /\ strm.cancelled
    /\ strm' = StreamCancelled(strm)

\* await self._token.check_async(), then yield item
StreamCheck ==
    /\ strm.wrapper = "stream"
    /\ strm.pc = "check"
    /\ strm' = IF strm.cancelled
               THEN StreamCancelled(strm)
               ELSE [strm EXCEPT !.pc = "yield", !.yielded = Append(@, strm.i)]

\* the consumer asks for the next item: count += 1 and the buffer
StreamResume ==
    /\ strm.wrapper = "stream"
    /\ strm.pc = "yield"
    /\ strm' = [strm EXCEPT
                  !.count = @ + 1,
                  !.buffer = IF strm.buffer_partial THEN Buffered(@, strm.i) ELSE @,
                  !.pc = "next"]

\* the body of the consumer is cancelled or raises while the generator is
\* suspended at its yield: the generator is closed with GeneratorExit, which
\* no except branch of stream catches
StreamClose ==
    /\ strm.wrapper = "stream"
    /\ strm.pc = "yield"
    /\ strm' = Ended28(strm, IF strm.cancelled THEN "cancelled" ELSE "error",
                       strm.partial_result)

\* what CancellableAsyncIterator.__anext__ writes in each except branch
IterPartial(c, completed) ==
    IF c.buffer_partial
    THEN Partial(c.count, TRUE, c.buffer, completed)
    ELSE c.partial_result

\* CancellableAsyncIterator.__anext__: check_async outside the try, then the
\* next item of the source, its end or its error
IterNext ==
    /\ strm.wrapper = "iterator"
    /\ strm.pc = "next"
    /\ strm' =
         IF strm.cancelled
         THEN Ended28(strm, "cancelled", strm.partial_result)
         ELSE IF strm.i < strm.n
         THEN [strm EXCEPT
                 !.i = @ + 1, !.count = @ + 1,
                 !.buffer = IF strm.buffer_partial THEN Buffered(@, strm.i + 1) ELSE @,
                 !.yielded = Append(@, strm.i + 1)]
         ELSE IF strm.fails
         THEN Ended28(strm, "error", IterPartial(strm, "false"))
         ELSE Ended28(strm, "completed", IterPartial(strm, "true"))

\* the scope is cancelled while __anext__ awaits the source
IterAwaitCancelled ==
    /\ strm.wrapper = "iterator"
    /\ strm.pc = "next"
    /\ ~strm.cancelled
    /\ strm' = Ended28([strm EXCEPT !.cancelled = TRUE], "cancelled",
                       IterPartial(strm, "false"))

\* the token of the scope is cancelled
StreamCancel ==
    /\ strm.pc # "done"
    /\ ~strm.cancelled
    /\ strm' = [strm EXCEPT !.cancelled = TRUE]

streamRest == <<coreVars, bridge, sig, cond, comp, chk, val, rl, wr>>

InitStream ==
    /\ strm \in {NewStream(w, n, f, b) :
                   w \in Wrappers, n \in 0..MaxItems, f \in BOOLEAN, b \in BOOLEAN}
    /\ bridge = <<>>
    /\ NoCore /\ NoSig /\ NoCond /\ NoComp /\ NoChk /\ NoVal /\ NoRl /\ NoWr

NextStream ==
    \/ StreamNext /\ UNCHANGED streamRest
    \/ StreamAwaitCancelled /\ UNCHANGED streamRest
    \/ StreamCheck /\ UNCHANGED streamRest
    \/ StreamResume /\ UNCHANGED streamRest
    \/ StreamClose /\ UNCHANGED streamRest
    \/ IterNext /\ UNCHANGED streamRest
    \/ IterAwaitCancelled /\ UNCHANGED streamRest
    \/ StreamCancel /\ UNCHANGED streamRest

SpecStream == InitStream /\ [][NextStream]_vars

\* C28: when the iteration has ended, partial_result is written, its count is
\* the number of items the consumer received, completed is true exactly
\* after normal completion and false otherwise, and with buffer_partial the
\* buffer holds the last min(count, limit) received items in order.
C28_Original ==
    strm.pc = "done" =>
        /\ strm.partial_result.written
        /\ strm.partial_result.count = Len(strm.yielded)
        /\ strm.partial_result.completed =
              (IF strm.outcome = "completed" THEN "true" ELSE "false")
        /\ strm.buffer_partial =>
              /\ strm.partial_result.buffered
              /\ strm.partial_result.buffer = LastOf(strm.yielded, BufferLimit)

(***************************************************************************)
(* chunked_cancellable_stream (utils/streams.py).  The source yields the   *)
(* items 1..n through cancellable.stream; the consumer takes every list.   *)
(***************************************************************************)
MaxChunkItems == 6

MaxChunkSize == 3

\* f"Processed chunk of {chunk_size} items"
ChunkMsg(size) == [k |-> "chunk", v |-> size]

\* f"Processed final chunk of {len(chunk)} items"
FinalMsg(size) == [k |-> "final chunk", v |-> size]

NewChunked(n, chunk_size) ==
    [n |-> n, chunk_size |-> chunk_size,
     i |-> 0,                         \* items taken from the source
     chunk |-> <<>>,
     pc |-> "next",
     lists |-> <<>>,                  \* history: the lists the consumer received
     events |-> <<>>]                 \* history: the progress messages

\* async for item in cancellable.stream(stream): chunk.append(item) and,
\* with a full chunk, yield chunk; after the last item, yield the rest
ChunkNext ==
    /\ chk.pc = "next"
    /\ chk' =
         IF chk.i < chk.n
         THEN LET chunk == Append(chk.chunk, chk.i + 1)
              IN IF Len(chunk) >= chk.chunk_size
                 THEN [chk EXCEPT !.i = @ + 1, !.chunk = <<>>,
                                  !.lists = Append(@, chunk), !.pc = "report"]
                 ELSE [chk EXCEPT !.i = @ + 1, !.chunk = chunk]
         ELSE IF chk.chunk # <<>>
         THEN [chk EXCEPT !.lists = Append(@, chk.chunk), !.pc = "final"]
         ELSE [chk EXCEPT !.pc = "done"]

\* the consumer asks for the next list: report_progress for a full chunk
ChunkReport ==
    /\ chk.pc = "report"
    /\ chk' = [chk EXCEPT !.events = Append(@, ChunkMsg(chk.chunk_size)),
                          !.pc = "next"]

\* the consumer asks for the next list: report_progress for the rest
ChunkFinal ==
    /\ chk.pc = "final"
    /\ chk' = [chk EXCEPT !.events = Append(@, FinalMsg(Len(chk.chunk))),
                          !.pc = "done"]

chunkRest == <<coreVars, bridge, sig, cond, comp, strm, val, rl, wr>>

InitChunked ==
    /\ chk \in {NewChunked(n, size) : n \in 0..MaxChunkItems, size \in 1..MaxChunkSize}
    /\ bridge = <<>>
    /\ NoCore /\ NoSig /\ NoCond /\ NoComp /\ NoStrm /\ NoVal /\ NoRl /\ NoWr

NextChunked ==
    \/ ChunkNext /\ UNCHANGED chunkRest
    \/ ChunkReport /\ UNCHANGED chunkRest
    \/ ChunkFinal /\ UNCHANGED chunkRest

SpecChunked == InitChunked /\ [][NextChunked]_vars

\* the concatenation of the lists of a sequence of lists
RECURSIVE Concat(_)
Concat(ls) == IF ls = <<>> THEN <<>> ELSE Head(ls) \o Concat(Tail(ls))

\* C29: after the whole source was taken, the lists concatenate to the
\* source in order, every list but the last has chunk_size items, the last is
\* non-empty, there is one progress event per list and the message of the
\* last event contains the word "final".
C29_Original ==
    chk.pc = "done" =>
        /\ Concat(chk.lists) = [j \in 1..chk.n |-> j]
        /\ \A j \in 1..(Len(chk.lists) - 1) : Len(chk.lists[j]) = chk.chunk_size
        /\ chk.lists # <<>> => chk.lists[Len(chk.lists)] # <<>>
        /\ Len(chk.events) = Len(chk.lists)
        /\ chk.events # <<>> => chk.events[Len(chk.events)].k = "final chunk"

(***************************************************************************)
(* Construction with a timeout or a check interval: TimeoutSource,         *)
(* Cancellable.with_timeout, the helper with_timeout, the decorators       *)
(* cancellable and cancellable_method, ConditionSource and                 *)
(* Cancellable.with_condition.  Durations are in milliseconds.             *)
(***************************************************************************)
TimeoutPaths == {"TimeoutSource", "Cancellable.with_timeout", "with_timeout",
                 "cancellable", "cancellable_method"}

IntervalPaths == {"ConditionSource", "Cancellable.with_condition"}

Decorators == {"cancellable", "cancellable_method"}

Durations == {-1000, -1, 0, 1, 500, 30000}

\* a float of seconds, a timedelta, or None
Float(ms) == [k |-> "float", ms |-> ms]

Timedelta(ms) == [k |-> "timedelta", ms |-> ms]

NoDuration == [k |-> "None", ms |-> 0]

\* the arguments a path takes: a check interval is a float, the timeout of a
\* decorator may be None
ArgsOf(path) ==
    IF path \in IntervalPaths THEN {Float(d) : d \in Durations}
    ELSE {Float(d) : d \in Durations} \cup {Timedelta(d) : d \in Durations}
         \cup (IF path \in Decorators THEN {NoDuration} ELSE {})

\* timeout.total_seconds() if isinstance(timeout, timedelta)
TotalSeconds(a) == IF a.k = "timedelta" THEN Float(a.ms) ELSE a

\* bool(timeout): None, 0, 0.0 and timedelta(0) are false
Bool(a) == a.k # "None" /\ a.ms # 0

NewConstruction == [pc |-> "idle", path |-> "none", arg |-> NoDuration,
                    error |-> "none", timeout |-> NoDuration,
                    interval |-> NoDuration]

\* TimeoutSource.__init__(timeout) for the construction v
TimeoutSourceInit(v, a) ==
    LET t == TotalSeconds(a)
    IN IF t.ms <= 0
       THEN [v EXCEPT !.pc = "raised", !.error = "ValueError"]
       ELSE [v EXCEPT !.pc = "built", !.timeout = t]

\* ConditionSource.__init__(condition, check_interval)
ConditionSourceInit(v, a) ==
    IF a.ms <= 0
    THEN [v EXCEPT !.pc = "raised", !.error = "ValueError"]
    ELSE [v EXCEPT !.pc = "built", !.interval = a]

\* Cancellable.with_timeout(timeout)
CancellableWithTimeout(v, a) == TimeoutSourceInit(v, TotalSeconds(a))

\* the wrapper of cancellable / cancellable_method: if timeout: ... else
\* Cancellable(**cancel_kwargs)
Decorated(v, a) ==
    IF Bool(a) THEN CancellableWithTimeout(v, a) ELSE [v EXCEPT !.pc = "built"]

\* one construction on the given path with the given argument
Construct(path, a) ==
    /\ val.pc = "idle"
    /\ LET v == [val EXCEPT !.path = path, !.arg = a]
       IN val' = IF path = "TimeoutSource" THEN TimeoutSourceInit(v, a)
                 ELSE IF path \in {"Cancellable.with_timeout", "with_timeout"}
                 THEN CancellableWithTimeout(v, a)
                 ELSE IF path \in Decorators THEN Decorated(v, a)
                 ELSE ConditionSourceInit(v, a)

\* async with cancellable: the scope that was built runs
ValEnter ==
    /\ val.pc = "built"
    /\ val' = [val EXCEPT !.pc = "running"]

\* the scope ends
ValExit ==
    /\ val.pc = "running"
    /\ val' = [val EXCEPT !.pc = "done"]

valRest == <<coreVars, bridge, sig, cond, comp, strm, chk, rl, wr>>

InitConstruction ==
    /\ val = NewConstruction
    /\ bridge = <<>>
    /\ NoCore /\ NoSig /\ NoCond /\ NoComp /\ NoStrm /\ NoChk /\ NoRl /\ NoWr

NextConstruction ==
    \/ \E path \in TimeoutPaths \cup IntervalPaths :
          \E a \in ArgsOf(path) : Construct(path, a) /\ UNCHANGED valRest
    \/ ValEnter /\ UNCHANGED valRest
    \/ ValExit /\ UNCHANGED valRest

SpecConstruction == InitConstruction /\ [][NextConstruction]_vars

\* the argument of the construction is a zero or negative duration
NonPositive(a) == a.k # "None" /\ a.ms <= 0

\* C30: a construction with a zero or negative timeout or check interval
\* raises an error, on every path, and no scope runs with a non-positive
\* timeout or interval.
C30_Original ==
    val.pc # "idle" =>
        /\ NonPositive(val.arg) => val.pc = "raised" /\ val.error = "ValueError"
        /\ val.pc \in {"running", "done"} =>
              /\ val.timeout.k # "None" => val.timeout.ms > 0
              /\ val.interval.k # "None" => val.interval.ms > 0

(***************************************************************************)
(* Claims about the sources of a scope, checked under SpecScope.           *)
(***************************************************************************)
\* source x has fired: its sleep is over, its predicate has returned true,
\* or its signal has arrived and the bridge has run schedule_cancellation
SourceFired(x) == src[x].triggered /\ ~src[x].queued

\* the sources of scope s that have fired
FiredOf(s) == {x \in Range(sc.srcs[s]) : src[x].scope = s /\ SourceFired(x)}

\* C31: when a source attached to a scope has fired, the token of the scope
\* is cancelled with the reason of a source that fired.
C31_Original ==
    \A s \in sc.enter :
        FiredOf(s) # {} =>
            /\ tok[sc.token[s]].is_cancelled
            /\ tok[sc.token[s]].reason \in {SourceReason(x) : x \in FiredOf(s)}

\* the timeout source whose deadline the region of s carries: the last one
\* of its sources
DeadlineSources(s) ==
    {sc.srcs[s][i] : i \in {i \in 1..Len(sc.srcs[s]) :
        /\ SourceKind(sc.srcs[s][i]) = "timeout"
        /\ \A j \in (i + 1)..Len(sc.srcs[s]) : SourceKind(sc.srcs[s][j]) # "timeout"}}

\* the region of s was cancelled by its deadline and by nothing else
CancelledByDeadline(s) ==
    /\ pc[s] = "done"
    /\ ex[s].region.cancel_called /\ ex[s].due
    /\ ~ex[s].token.is_cancelled
    /\ \A x \in Range(sc.srcs[s]) : SourceKind(x) # "timeout" => ~src[x].triggered

\* C32: the triggered flag of a source is false until the source fires, and
\* a source that caused the cancellation of its scope has its triggered flag
\* set once the scope has exited.
C32_Original ==
    /\ \A x \in Sources :
          src[x].triggered =>
              /\ src[x].scope # 0
              /\ SourceKind(x) = "timeout" => now >= src[x].wake
    /\ \A s \in sc.enter :
          CancelledByDeadline(s) => \A x \in DeadlineSources(s) : src[x].triggered

\* C33: on exit the sources of a scope are stopped in the reverse of the
\* order in which they were attached and started.
C33_Original ==
    \A s \in sc.enter :
        (fin[s].exited /\ fin[s].monitoring = {}) =>
            \A i \in 1..Len(fin[s].stopped) :
                fin[s].stopped[i] = sc.srcs[s][Len(sc.srcs[s]) + 1 - i]

(***************************************************************************)
(* Claim about the sub-scope of shield(), checked under SpecShield.        *)
(***************************************************************************)
\* C34: the sub-scope yielded by shield() has status SHIELDED exactly while
\* the shielded body is executing, and a terminal status once the body has
\* ended.
C34_Original ==
    \A s \in Scopes :
        /\ sh[s].status = "SHIELDED" <=> sh[s].state = "in"
        /\ sh[s].state = "out" => sh[s].status \in Terminal

(***************************************************************************)
(* Claim about tokens linked in both directions, checked under SpecToken.  *)
(***************************************************************************)
\* a.link(b) and b.link(a) have both been made
Bidirectional ==
    \E i, j \in DOMAIN regs :
        /\ regs[i].state # "none" /\ regs[j].state # "none"
        /\ regs[i].a # 0 /\ regs[j].a # 0
        /\ regs[i].t = regs[j].a /\ regs[j].t = regs[i].a

\* task k waits for a token lock that task j holds
Waits(k, j) ==
    /\ Busy(k)
    /\ Top(k).pc = "acquire"
    /\ lock[Top(k).t] = j

\* C36: with two tokens linked in both directions no two tasks wait for
\* each other's token lock, and when every call has ended and a token is
\* cancelled, both tokens are cancelled.
C36_Original ==
    Bidirectional =>
        /\ \A k, j \in Tasks : k # j => ~(Waits(k, j) /\ Waits(j, k))
        /\ ((\A k \in Tasks : ~Busy(k)) /\ (\E t \in Tokens : tok[t].is_cancelled)) =>
              \A t \in Tokens : tok[t].is_cancelled

(***************************************************************************)
(* The lock of the registry (core/registry.py) at the granularity of its   *)
(* awaits: taking the lock, the block under the lock, and every            *)
(* operation.cancel() are steps of their own.  Two scopes are in the live  *)
(* table; the listener on the token of each calls a registry operation.    *)
(***************************************************************************)
MaxLockCalls == 2

LockTasks == {"a", "b"}

LockOps == {1, 2}

\* what the listener of a scope's token does
ListenerCalls == {"none", "register", "unregister", "list_operations", "cancel_all"}

LockFrame(op, o) == [op |-> op, pc |-> "acquire", o |-> o, todo |-> <<>>]

\* operation.cancel(reason, message) of scope o
OpFrame(o) == [op |-> "cancel", pc |-> "start", o |-> o, todo |-> <<>>]

NewLock(listener) ==
    [lock |-> "free",                      \* the task that holds _lock
     ops |-> LockOps,                      \* the keys of _operations
     token |-> [o \in LockOps |-> "active"],  \* "active", "cancelled", or the
                                           \* task that dispatches its listeners
     listener |-> listener,
     stack |-> [k \in LockTasks |-> <<>>],
     calls |-> 0,
     ran_locked |-> FALSE,    \* history: a listener ran while its task held _lock
     reentered |-> FALSE,     \* history: a task asked for _lock while holding it
     nested |-> 0]            \* history: registry calls made by listeners

LockTop(k) == rl.stack[k][Len(rl.stack[k])]

LockPop(k) == [rl.stack EXCEPT ![k] = SubSeq(@, 1, Len(@) - 1)]

LockSet(k, f) == [rl.stack EXCEPT ![k] = Append(SubSeq(@, 1, Len(@) - 1), f)]

LockPush(k, f, g) ==
    [rl.stack EXCEPT ![k] = Append(Append(SubSeq(@, 1, Len(@) - 1), f), g)]

\* the keys of the live table in the order of the dict (the scopes were
\* registered in the order of their numbers)
RECURSIVE InOrder(_)
InOrder(S) ==
    IF S = {} THEN <<>>
    ELSE LET o == CHOOSE o \in S : \A q \in S : o <= q
         IN <<o>> \o InOrder(S \ {o})

\* a cancel_all that keeps the lock while it cancels
LockKept(k) == k

\* cancel_all: the lock after the block "async with self._lock"
LockAfterCopy(k) == "free"

\* a task calls registry.cancel_all() or registry.cancel_operation(o)
LockCall(k, op, o) ==
    /\ rl.stack[k] = <<>>
    /\ rl.calls < MaxLockCalls
    /\ rl' = [rl EXCEPT !.calls = @ + 1,
                        !.stack = [@ EXCEPT ![k] = <<LockFrame(op, o)>>]]

\* async with self._lock: the lock is free and the task takes it, or the
\* task holds it already (anyio.Lock raises RuntimeError)
LockAcquire(k) ==
    /\ rl.stack[k] # <<>>
    /\ LockTop(k).op # "cancel"
    /\ LockTop(k).pc = "acquire"
    /\ \/ /\ rl.lock = "free"
          /\ rl' = [rl EXCEPT !.lock = k,
                              !.stack = LockSet(k, [LockTop(k) EXCEPT !.pc = "held"])]
       \/ /\ rl.lock = k
          /\ rl' = [rl EXCEPT !.reentered = TRUE, !.stack = LockPop(k)]

\* the block under the lock, and its release
LockCritical(k) ==
    /\ rl.stack[k] # <<>>
    /\ LockTop(k).pc = "held"
    /\ LET f == LockTop(k)
       IN IF f.op = "cancel_all"
          THEN rl' = [rl EXCEPT
                        !.lock = LockAfterCopy(k),
                        !.stack = LockSet(k, [f EXCEPT !.pc = "loop",
                                                       !.todo = InOrder(rl.ops)])]
          ELSE IF f.op = "cancel_operation"
          THEN rl' = [rl EXCEPT
                        !.lock = "free",
                        !.stack = IF f.o \in rl.ops
                                  THEN LockSet(k, [f EXCEPT !.pc = "loop", !.todo = <<f.o>>])
                                  ELSE LockPop(k)]
          ELSE rl' = [rl EXCEPT
                        !.lock = "free",
                        !.ops = IF f.op = "unregister" THEN @ \ {f.o}
                                ELSE IF f.op = "register" THEN @ \cup {f.o} ELSE @,
                        !.nested = @ + 1,
                        !.stack = LockPop(k)]

\* for operation in to_cancel: await operation.cancel(...), and the return
LockLoop(k) ==
    /\ rl.stack[k] # <<>>
    /\ LockTop(k).pc = "loop"
    /\ LET f == LockTop(k)
       IN IF f.todo = <<>>
          THEN rl' = [rl EXCEPT
                        !.lock = IF @ = k /\ Len(rl.stack[k]) = 1 THEN "free" ELSE @,
                        !.nested = IF Len(rl.stack[k]) > 1 THEN @ + 1 ELSE @,
                        !.stack = LockPop(k)]
          ELSE rl' = [rl EXCEPT
                        !.stack = LockPush(k, [f EXCEPT !.todo = Tail(@)],
                                           OpFrame(Head(f.todo)))]

\* operation.cancel(): token.cancel() returns False on a cancelled token,
\* raises RuntimeError when this task is dispatching the token's listeners
\* (the token's lock is not re-entrant), waits while another task is, and
\* else makes the transition and runs the listeners
OpCancel(k) ==
    /\ rl.stack[k] # <<>>
    /\ LockTop(k).op = "cancel"
    /\ LockTop(k).pc = "start"
    /\ LET f == LockTop(k)
       IN \/ /\ rl.token[f.o] \in {"cancelled", k}
             /\ rl' = [rl EXCEPT !.stack = LockPop(k)]
          \/ /\ rl.token[f.o] = "active"
             /\ rl' = [rl EXCEPT
                         !.token[f.o] = k,
                         !.ran_locked = @ \/ rl.lock = k,
                         !.stack = IF rl.listener = "none"
                                   THEN LockSet(k, [f EXCEPT !.pc = "finish"])
                                   ELSE LockPush(k, [f EXCEPT !.pc = "finish"],
                                                 LockFrame(rl.listener, f.o))]

\* the listeners have run: token.cancel() releases the token's lock
OpFinish(k) ==
    /\ rl.stack[k] # <<>>
    /\ LockTop(k).op = "cancel"
    /\ LockTop(k).pc = "finish"
    /\ rl' = [rl EXCEPT !.token[LockTop(k).o] = "cancelled", !.stack = LockPop(k)]

lockRest == <<coreVars, bridge, sig, cond, comp, strm, chk, val, wr>>

InitLock ==
    /\ rl \in {NewLock(l) : l \in ListenerCalls}
    /\ bridge = <<>>
    /\ NoCore /\ NoSig /\ NoCond /\ NoComp /\ NoStrm /\ NoChk /\ NoVal /\ NoWr

NextLock ==
    \/ \E k \in LockTasks : LockCall(k, "cancel_all", 0) /\ UNCHANGED lockRest
    \/ \E k \in LockTasks, o \in LockOps :
          LockCall(k, "cancel_operation", o) /\ UNCHANGED lockRest
    \/ \E k \in LockTasks : LockAcquire(k) /\ UNCHANGED lockRest
    \/ \E k \in LockTasks : LockCritical(k) /\ UNCHANGED lockRest
    \/ \E k \in LockTasks : LockLoop(k) /\ UNCHANGED lockRest
    \/ \E k \in LockTasks : OpCancel(k) /\ UNCHANGED lockRest
    \/ \E k \in LockTasks : OpFinish(k) /\ UNCHANGED lockRest

SpecLock == InitLock /\ [][NextLock]_vars

\* C35: no listener runs while its task holds the registry lock: the holder
\* of the lock is in the block under the lock and nowhere else, no
\* operation.cancel() starts in a task that holds the lock, and no task asks
\* for the lock while it holds it.
C35_LockFree ==
    /\ ~rl.ran_locked
    /\ ~rl.reentered
    /\ \A k \in LockTasks :
          rl.lock = k =>
              /\ rl.stack[k] # <<>>
              /\ LockTop(k).pc = "held"
              /\ LockTop(k).op # "cancel"

\* C35 witness: the listeners of both scopes have called cancel_all from
\* inside a cancel_all, every call has returned and both tokens are
\* cancelled.
C35_Witness ==
    /\ rl.listener = "cancel_all"
    /\ rl.nested >= 2
    /\ \A k \in LockTasks : rl.stack[k] = <<>>
    /\ \A o \in LockOps : rl.token[o] = "cancelled"
    /\ rl.lock = "free"

(***************************************************************************)
(* The live table while the body of a registered scope runs.               *)
(***************************************************************************)
\* await registry.get_operation(id) returns the scope s
Found(s) ==
    /\ sc.id[s] \in Keys(registry.operations)
    /\ Get(registry.operations, sc.id[s]) = s

\* C37 as stated: while the body of a scope made with register_globally
\* runs, get_operation(id) returns that scope, whatever cleanup_completed
\* and the other scopes do (the program itself calls neither register nor
\* unregister).
C37_Original ==
    ncalls = 0 =>
        \A s \in sc.globally : pc[s] = "body" => Found(s)

(***************************************************************************)
(* Cancellable.wrap: every invocation of the wrapper runs                  *)
(* "async with self" on the one scope, each in a task of its own.          *)
(* self._scope and self._context_token are fields of the scope; the        *)
(* regions are numbered by the invocation that made them.                  *)
(***************************************************************************)
MaxInvocations == 3

Invocations == 1..MaxInvocations

\* anyio.CancelScope() not yet made
NoRegion == [made |-> FALSE, entered |-> FALSE, exited |-> FALSE, cancel_called |-> FALSE]

NewWrap ==
    [pc |-> [i \in Invocations |-> "new"],   \* "new", "body", "done", "error"
     region |-> [i \in Invocations |-> NoRegion],
     scope |-> 0,              \* self._scope: the region it refers to, 0 = None
     context_token |-> 0,      \* self._context_token: the invocation that set it
     used |-> FALSE,           \* that Token has been passed to reset()
     current |-> [i \in Invocations |-> FALSE],  \* get_current_operation() is
                                                 \* the scope in the task of i
     cancelled |-> FALSE,      \* self._token.is_cancelled
     overlap |-> FALSE]        \* history: an invocation began during another

InBody(i) == wr.pc[i] = "body"

\* __aenter__ in the task of invocation i: _current_operation.set(self),
\* self._scope = anyio.CancelScope(), the listener on the token (called at
\* once on a cancelled token), self._scope.__enter__()
WrapEnter(i) ==
    /\ wr.pc[i] = "new"
    /\ wr' = [wr EXCEPT
                !.pc[i] = "body",
                !.region[i] = [made |-> TRUE, entered |-> TRUE, exited |-> FALSE,
                               cancel_called |-> wr.cancelled],
                !.scope = i,
                !.context_token = i,
                !.used = FALSE,
                !.current[i] = TRUE,
                !.overlap = @ \/ \E j \in Invocations : InBody(j)]

\* self._scope.__exit__ in the task of i raises RuntimeError unless the
\* region is the one the task is in
ExitRaises(i) == wr.scope # i \/ wr.region[i].exited

\* _current_operation.reset(self._context_token) raises ValueError for a
\* Token made in the context of another task and RuntimeError for a used one
ResetRaises(i) == wr.context_token # i \/ wr.used

\* __aexit__ in the task of invocation i: self._scope.__exit__(...), then in
\* the finally block the reset of the context variable
WrapExit(i) ==
    /\ InBody(i)
    /\ wr' = [wr EXCEPT
                !.pc[i] = IF ExitRaises(i) \/ ResetRaises(i) THEN "error" ELSE "done",
                !.region[i].exited = IF ExitRaises(i) THEN @ ELSE TRUE,
                !.used = IF ResetRaises(i) THEN @ ELSE TRUE,
                !.current[i] = IF ResetRaises(i) THEN @ ELSE FALSE]

\* await self.cancel() by fn or by another task: the token's listeners all
\* read self._scope when they run
WrapCancel ==
    /\ \E i \in Invocations : InBody(i)
    /\ ~wr.cancelled
    /\ wr' = [wr EXCEPT
                !.cancelled = TRUE,
                !.region = IF wr.scope # 0
                           THEN [@ EXCEPT ![wr.scope].cancel_called = TRUE] ELSE @]

wrapRest == <<coreVars, bridge, sig, cond, comp, strm, chk, val, rl>>

InitWrap ==
    /\ wr = NewWrap
    /\ bridge = <<>>
    /\ NoCore /\ NoSig /\ NoCond /\ NoComp /\ NoStrm /\ NoChk /\ NoVal /\ NoRl

NextWrap ==
    \/ \E i \in Invocations : WrapEnter(i) /\ UNCHANGED wrapRest
    \/ \E i \in Invocations : WrapExit(i) /\ UNCHANGED wrapRest
    \/ WrapCancel /\ UNCHANGED wrapRest

SpecWrap == InitWrap /\ [][NextWrap]_vars

\* the region and the binding of an invocation in its body are its own
OwnRegion(i) ==
    /\ wr.region[i].entered
    /\ ~wr.region[i].exited
    /\ wr.scope = i
    /\ wr.context_token = i
    /\ wr.current[i]
    /\ wr.cancelled => wr.region[i].cancel_called

\* C38 as stated: every invocation of the wrapper, after another one or
\* during another one, runs fn inside its own open region: while fn runs,
\* self._scope is the region of that invocation, the stored context token is
\* its own, and a cancel() reaches its region; and no invocation ends with
\* an error raised by its own exit.
C38_Original ==
    \A i \in Invocations :
        /\ InBody(i) => OwnRegion(i)
        /\ wr.pc[i] # "error"

(***************************************************************************)
(* The bridge when its worker ends and start() is called again.  The       *)
(* worker ends when the task group it runs in is cancelled: CancelledError *)
(* is not an Exception, so it leaves _worker and start() at the await the  *)
(* worker is in.                                                           *)
(***************************************************************************)
MaxRestarts == 1

\* how often start() has been called after the worker ended
Restarts == Len(SelectSeq(bridge.events, LAMBDA e : e.e = "start"))

\* start(): `if self._started: return`
AlreadyStarted(b) == b.started

\* the task of the worker is cancelled at receive(), at the awaitable of a
\* callable or at sleep(0); the event keeps how many callables had been
\* submitted by then
WorkerCancelled ==
    /\ bridge.start = "worker"
    /\ bridge' = [bridge EXCEPT
                    !.start = "ended",
                    !.worker = NoCallable,
                    !.events = Append(@, [e |-> "ended", id |-> bridge.n])]

\* start() called again
StartAgain ==
    /\ bridge.start = "ended"
    /\ Restarts < MaxRestarts
    /\ bridge' = [bridge EXCEPT
                    !.start = IF AlreadyStarted(bridge) THEN @ ELSE "new",
                    !.started = IF AlreadyStarted(bridge) THEN @ ELSE FALSE,
                    !.events = Append(@, [e |-> "start", id |-> bridge.n])]

NextRestart ==
    \/ NextBridge
    \/ WorkerCancelled /\ UNCHANGED bridgeRest
    \/ StartAgain /\ UNCHANGED bridgeRest

SpecRestart == InitBridge /\ [][NextRestart]_vars

\* the event loop runs every task that can run, and a thread that has read
\* the flag goes on
FairRestart ==
    /\ SpecRestart
    /\ WF_vars(StartDrain /\ UNCHANGED bridgeRest)
    /\ WF_vars(StartStarted /\ UNCHANGED bridgeRest)
    /\ WF_vars(WorkerReceive /\ UNCHANGED bridgeRest)
    /\ WF_vars(WorkerDone /\ UNCHANGED bridgeRest)
    /\ WF_vars(\E k \in Threads : CallAppend(k) /\ UNCHANGED bridgeRest)
    /\ WF_vars(\E k \in Threads : CallSend(k) /\ UNCHANGED bridgeRest)

\* the worker has ended, and callable id was submitted after that
AfterEnd(id) ==
    \E i \in 1..Len(bridge.events) :
        bridge.events[i].e = "ended" /\ bridge.events[i].id < id

\* start() has been called after callable id was submitted
StartedSince(id) ==
    \E i \in 1..Len(bridge.events) :
        bridge.events[i].e = "start" /\ bridge.events[i].id >= id

Accepted(id) == \E i \in 1..Len(bridge.accepted) : bridge.accepted[i].id = id

Ran(id) ==
    \E i \in 1..Len(bridge.events) :
        bridge.events[i].e = "call" /\ bridge.events[i].id = id

\* C39 as stated: a callable that was submitted after the worker ended, and
\* was taken by the bridge, is eventually run once start() has been called
\* again.
C39_Original ==
    \A id \in 1..MaxSubmits :
        (AfterEnd(id) /\ Accepted(id) /\ StartedSince(id)) ~> Ran(id)

(***************************************************************************)
(* cancel(propagate_to_children=False), checked under SpecTree.            *)
(***************************************************************************)
\* C40 as stated: a step of scope.cancel(reason, message,
\* propagate_to_children=False) leaves the token of every child of the
\* scope, entered or not, as it was.
C40_Original ==
    [][\A s \in Scopes, a \in CancelArgs :
          ScopeCancel(s, a[1], a[2], FALSE) =>
              \A c \in Children(s) :
                  tok'[sc.token[c]].is_cancelled = tok[sc.token[c]].is_cancelled]_vars

====
